---------------------------- MODULE Spec2Model ----------------------------
(***************************************************************************)
(* A model of the Internex proxy (Go server under src/internex and the    *)
(* unnamed parts of package transport).                                    *)
(*                                                                         *)
(* Go strings are byte strings; they are modelled as sequences of byte    *)
(* values (0..255).  B("text") turns a literal into such a sequence.       *)
(***************************************************************************)
EXTENDS Integers, Sequences, FiniteSets, TLC

-----------------------------------------------------------------------------
(* Byte strings                                                            *)

AsciiA == " !"
AsciiB == "#$%&'()*+,-./0123456789:;<=>?@ABCDEFGHIJKLMNOPQRSTUVWXYZ["
AsciiC == "]^_"
AsciiD == "abcdefghijklmnopqrstuvwxyz{|}~"

\* the characters of a table paired with their byte values
CharCodes(tbl, first) == {<<SubSeq(tbl, i, i), first + i - 1>> : i \in 1..Len(tbl)}

AsciiCodes ==
    CharCodes(AsciiA, 32) \cup CharCodes(AsciiB, 35) \cup CharCodes(AsciiC, 93)
        \cup CharCodes(AsciiD, 97)

OrdTable ==
    [ch \in {p[1] : p \in AsciiCodes} |-> (CHOOSE p \in AsciiCodes : p[1] = ch)[2]]

\* The byte value of a one-character literal (printable ASCII except the
\* double quote, the backslash and the backtick, which no literal uses).
Ord(ch) == OrdTable[ch]

B(str) == [i \in 1..Len(str) |-> Ord(SubSeq(str, i, i))]

Min(S) == CHOOSE x \in S : \A y \in S : x <= y
Max(S) == CHOOSE x \in S : \A y \in S : x >= y

IsUpper(c) == c >= 65 /\ c <= 90
IsLower(c) == c >= 97 /\ c <= 122
IsAlpha(c) == IsUpper(c) \/ IsLower(c)
IsDigit(c) == c >= 48 /\ c <= 57
IsAlnum(c) == IsAlpha(c) \/ IsDigit(c)

ToLowerByte(c) == IF IsUpper(c) THEN c + 32 ELSE c
ToUpperByte(c) == IF IsLower(c) THEN c - 32 ELSE c

\* strings.ToLower (ASCII)
ToLower(s) == [i \in 1..Len(s) |-> ToLowerByte(s[i])]

\* strings.EqualFold (ASCII)
EqualFold(s, t) == ToLower(s) = ToLower(t)

\* strings.HasPrefix / HasSuffix
HasPrefix(s, p) == Len(s) >= Len(p) /\ SubSeq(s, 1, Len(p)) = p
HasSuffix(s, p) == Len(s) >= Len(p) /\ SubSeq(s, Len(s) - Len(p) + 1, Len(s)) = p

\* strings.TrimPrefix
TrimPrefix(s, p) == IF HasPrefix(s, p) THEN SubSeq(s, Len(p) + 1, Len(s)) ELSE s

\* strings.IndexByte / LastIndexByte, 1-based; 0 when absent
IndexByte(s, c) ==
    LET I == {i \in 1..Len(s) : s[i] = c} IN IF I = {} THEN 0 ELSE Min(I)
LastIndexByte(s, c) ==
    LET I == {i \in 1..Len(s) : s[i] = c} IN IF I = {} THEN 0 ELSE Max(I)

\* strings.Contains
Contains(s, p) ==
    \E i \in 1..(Len(s) - Len(p) + 1) : SubSeq(s, i, i + Len(p) - 1) = p

\* strings.Count for a single byte
CountByte(s, c) == Cardinality({i \in 1..Len(s) : s[i] = c})

\* strings.Cut(s, sep) for a single-byte separator: <<before, after, found>>
Cut(s, c) ==
    LET i == IndexByte(s, c) IN
    IF i = 0 THEN <<s, <<>>, FALSE>>
    ELSE <<SubSeq(s, 1, i - 1), SubSeq(s, i + 1, Len(s)), TRUE>>

\* strings.Split(s, sep) for a single-byte separator
RECURSIVE Split(_, _)
Split(s, c) ==
    LET i == IndexByte(s, c) IN
    IF i = 0 THEN <<s>>
    ELSE <<SubSeq(s, 1, i - 1)>> \o Split(SubSeq(s, i + 1, Len(s)), c)

\* strings.Join
RECURSIVE Join(_, _)
Join(parts, sep) ==
    IF Len(parts) = 0 THEN <<>>
    ELSE IF Len(parts) = 1 THEN parts[1]
    ELSE parts[1] \o sep \o Join(Tail(parts), sep)

\* unicode.IsSpace restricted to ASCII: \t \n \v \f \r and space
IsSpace(c) == c \in {9, 10, 11, 12, 13, 32}

\* strings.TrimSpace
TrimSpace(s) ==
    LET I == {i \in 1..Len(s) : ~IsSpace(s[i])} IN
    IF I = {} THEN <<>> ELSE SubSeq(s, Min(I), Max(I))

-----------------------------------------------------------------------------
(* net/url as used by the codec: QueryEscape, QueryUnescape, Parse,        *)
(* URL.String and URL.Parse (reference resolution).                        *)

ishex(c) == IsDigit(c) \/ (c >= 97 /\ c <= 102) \/ (c >= 65 /\ c <= 70)

unhex(c) ==
    IF IsDigit(c) THEN c - 48
    ELSE IF c >= 97 /\ c <= 102 THEN c - 97 + 10
    ELSE IF c >= 65 /\ c <= 70 THEN c - 65 + 10
    ELSE 0

\* the digit of "0123456789ABCDEF" for a nibble
upperhex(n) == IF n < 10 THEN 48 + n ELSE 65 + (n - 10)

\* url.shouldEscape for the modes the program reaches
shouldEscape(c, mode) ==
    IF IsAlnum(c) THEN FALSE
    ELSE IF mode = "encodeHost"
            /\ c \in {33, 36, 38, 39, 40, 41, 42, 43, 44, 59, 61, 58, 91, 93, 60, 62, 34}
    THEN FALSE
    ELSE IF c \in {45, 95, 46, 126} THEN FALSE
    ELSE IF c \in {36, 38, 43, 44, 47, 58, 59, 61, 63, 64}
            /\ mode \in {"encodePath", "encodeQueryComponent", "encodeFragment"}
    THEN (CASE mode = "encodePath" -> c = 63
            [] mode = "encodeQueryComponent" -> TRUE
            [] mode = "encodeFragment" -> FALSE)
    ELSE IF mode = "encodeFragment" /\ c \in {33, 40, 41, 42} THEN FALSE
    ELSE TRUE

RECURSIVE escapeFrom(_, _, _)
escapeFrom(s, i, mode) ==
    IF i > Len(s) THEN <<>>
    ELSE LET c == s[i] IN
         (IF shouldEscape(c, mode)
          THEN (IF c = 32 /\ mode = "encodeQueryComponent"
                THEN <<43>>
                ELSE <<37, upperhex(c \div 16), upperhex(c % 16)>>)
          ELSE <<c>>) \o escapeFrom(s, i + 1, mode)

\* url.escape
escape(s, mode) == escapeFrom(s, 1, mode)

\* the validation pass of url.unescape: TRUE iff no EscapeError / InvalidHostError
RECURSIVE unescapeValid(_, _, _)
unescapeValid(s, i, mode) ==
    IF i > Len(s) THEN TRUE
    ELSE IF s[i] = 37
    THEN /\ i + 2 <= Len(s)
         /\ ishex(s[i + 1])
         /\ ishex(s[i + 2])
         /\ ~(mode = "encodeHost" /\ unhex(s[i + 1]) < 8
              /\ SubSeq(s, i, i + 2) # <<37, 50, 53>>)
         /\ unescapeValid(s, i + 3, mode)
    ELSE /\ ~(mode = "encodeHost" /\ s[i] < 128 /\ s[i] # 43
              /\ shouldEscape(s[i], "encodeHost"))
         /\ unescapeValid(s, i + 1, mode)

\* the decoding pass of url.unescape
RECURSIVE unescapeFrom(_, _, _)
unescapeFrom(s, i, mode) ==
    IF i > Len(s) THEN <<>>
    ELSE IF s[i] = 37
    THEN <<unhex(s[i + 1]) * 16 + unhex(s[i + 2])>> \o unescapeFrom(s, i + 3, mode)
    ELSE IF s[i] = 43 /\ mode = "encodeQueryComponent"
    THEN <<32>> \o unescapeFrom(s, i + 1, mode)
    ELSE <<s[i]>> \o unescapeFrom(s, i + 1, mode)

\* url.unescape: [ok, s]
unescape(s, mode) ==
    IF unescapeValid(s, 1, mode)
    THEN [ok |-> TRUE, s |-> unescapeFrom(s, 1, mode)]
    ELSE [ok |-> FALSE, s |-> <<>>]

QueryEscape(s) == escape(s, "encodeQueryComponent")
QueryUnescape(s) == unescape(s, "encodeQueryComponent")

\* url.stringContainsCTLByte
stringContainsCTLByte(s) == \E i \in 1..Len(s) : s[i] < 32 \/ s[i] = 127

\* url.getScheme once the position i of the first byte that cannot belong to
\* a scheme is known (0 when there is none): [ok, scheme, rest]
schemeUpTo(rawURL, i) ==
    IF i = 0 THEN [ok |-> TRUE, scheme |-> <<>>, rest |-> rawURL]
    ELSE IF rawURL[i] # 58 THEN [ok |-> TRUE, scheme |-> <<>>, rest |-> rawURL]
    ELSE IF i = 1 THEN [ok |-> FALSE, scheme |-> <<>>, rest |-> <<>>]
    ELSE [ok |-> TRUE, scheme |-> SubSeq(rawURL, 1, i - 1),
          rest |-> SubSeq(rawURL, i + 1, Len(rawURL))]

\* url.getScheme: [ok, scheme, rest]
getScheme(rawURL) ==
    schemeUpTo(rawURL,
               Min({i \in 1..Len(rawURL) :
                       /\ ~IsAlpha(rawURL[i])
                       /\ ~(i > 1 /\ (IsDigit(rawURL[i]) \/ rawURL[i] \in {43, 45, 46}))}
                   \cup {Len(rawURL) + 1}) % (Len(rawURL) + 1))

\* url.validOptionalPort
validOptionalPort(port) ==
    \/ port = <<>>
    \/ /\ port[1] = 58
       /\ \A i \in 2..Len(port) : IsDigit(port[i])

\* url.parseHost for a host that is not an IP literal: [ok, host]
parseHost(host) ==
    LET i == LastIndexByte(host, 58) IN
    IF i # 0 /\ ~validOptionalPort(SubSeq(host, i, Len(host)))
    THEN [ok |-> FALSE, s |-> <<>>]
    ELSE unescape(host, "encodeHost")

\* The zero url.URL (no userinfo: no modelled URL carries an '@' authority).
EmptyURL ==
    [ok |-> TRUE, Scheme |-> <<>>, Opaque |-> <<>>, Host |-> <<>>,
     Path |-> <<>>, RawPath |-> <<>>, OmitHost |-> FALSE, ForceQuery |-> FALSE,
     RawQuery |-> <<>>, Fragment |-> <<>>, RawFragment |-> <<>>]

BadURL == [EmptyURL EXCEPT !.ok = FALSE]

\* URL.setPath, path being the result of unescape(p, encodePath)
setPathTo(u, p, path) ==
    IF ~path.ok THEN BadURL
    ELSE [u EXCEPT !.Path = path.s,
                   !.RawPath = IF p = escape(path.s, "encodePath") THEN <<>> ELSE p]

\* URL.setPath
setPath(u, p) == setPathTo(u, p, unescape(p, "encodePath"))

\* URL.setFragment, frag being the result of unescape(f, encodeFragment)
setFragmentTo(u, f, frag) ==
    IF ~frag.ok THEN BadURL
    ELSE [u EXCEPT !.Fragment = frag.s,
                   !.RawFragment = IF f = escape(frag.s, "encodeFragment")
                                   THEN <<>> ELSE f]

\* URL.setFragment
setFragment(u, f) == setFragmentTo(u, f, unescape(f, "encodeFragment"))

\* url.parse, the authority branch: h is parseHost of the authority
parseWithHost(u, h, rest) ==
    IF ~h.ok THEN BadURL ELSE setPath([u EXCEPT !.Host = h.s], rest)

\* url.parse, the authority branch: a is what follows the leading "//" and i
\* the position of its first '/' (0 when there is none)
parseAuthority(u, a, i) ==
    parseWithHost(u, parseHost(IF i = 0 THEN a ELSE SubSeq(a, 1, i - 1)),
                  IF i = 0 THEN <<>> ELSE SubSeq(a, i, Len(a)))

\* url.parse after the query is cut off: u holds scheme and query, rest is
\* what remains
parseRest(u, rest) ==
    IF ~HasPrefix(rest, <<47>>) /\ u.Scheme # <<>>
    THEN [u EXCEPT !.Opaque = rest]
    ELSE IF ~HasPrefix(rest, <<47>>) /\ IndexByte(Cut(rest, 47)[1], 58) # 0
    THEN BadURL   \* first path segment in URL cannot contain colon
    ELSE IF HasPrefix(rest, <<47, 47>>)
            /\ (u.Scheme # <<>> \/ ~HasPrefix(rest, <<47, 47, 47>>))
    THEN parseAuthority(u, SubSeq(rest, 3, Len(rest)),
                        IndexByte(SubSeq(rest, 3, Len(rest)), 47))
    ELSE setPath(IF u.Scheme # <<>> /\ HasPrefix(rest, <<47>>)
                 THEN [u EXCEPT !.OmitHost = TRUE] ELSE u,
                 rest)

\* url.parse after getScheme: the query is cut off
parseQuery(scheme, rest) ==
    IF HasSuffix(rest, <<63>>) /\ CountByte(rest, 63) = 1
    THEN parseRest([EmptyURL EXCEPT !.Scheme = scheme, !.ForceQuery = TRUE],
                   SubSeq(rest, 1, Len(rest) - 1))
    ELSE parseRest([EmptyURL EXCEPT !.Scheme = scheme, !.RawQuery = Cut(rest, 63)[2]],
                   Cut(rest, 63)[1])

\* url.parse after getScheme, gs being its result
parseScheme(gs) ==
    IF ~gs.ok THEN BadURL ELSE parseQuery(ToLower(gs.scheme), gs.rest)

\* url.parse(rawURL, viaRequest = false)
parse(rawURL) ==
    IF stringContainsCTLByte(rawURL) THEN BadURL
    ELSE IF rawURL = <<42>> THEN [EmptyURL EXCEPT !.Path = <<42>>]
    ELSE parseScheme(getScheme(rawURL))

\* url.Parse after the fragment is cut off: u is the parsed front part
parseFragment(u, frag) ==
    IF ~u.ok THEN BadURL
    ELSE IF frag = <<>> THEN u
    ELSE setFragment(u, frag)

\* url.Parse
Parse(rawURL) == parseFragment(parse(Cut(rawURL, 35)[1]), Cut(rawURL, 35)[2])

\* url.validEncoded
validEncoded(s, mode) ==
    \A i \in 1..Len(s) :
        \/ s[i] \in {33, 36, 38, 39, 40, 41, 42, 43, 44, 59, 61, 58, 64, 91, 93, 37}
        \/ ~shouldEscape(s[i], mode)

\* URL.EscapedPath
EscapedPath(u) ==
    IF /\ u.RawPath # <<>>
       /\ validEncoded(u.RawPath, "encodePath")
       /\ unescape(u.RawPath, "encodePath") = [ok |-> TRUE, s |-> u.Path]
    THEN u.RawPath
    ELSE IF u.Path = <<42>> THEN <<42>>
    ELSE escape(u.Path, "encodePath")

\* URL.EscapedFragment
EscapedFragment(u) ==
    IF /\ u.RawFragment # <<>>
       /\ validEncoded(u.RawFragment, "encodeFragment")
       /\ unescape(u.RawFragment, "encodeFragment") = [ok |-> TRUE, s |-> u.Fragment]
    THEN u.RawFragment
    ELSE escape(u.Fragment, "encodeFragment")

\* URL.String: the authority part
stringAuthority(u) ==
    IF u.Scheme # <<>> \/ u.Host # <<>>
    THEN (IF u.OmitHost /\ u.Host = <<>> THEN <<>>
          ELSE (IF u.Host # <<>> \/ u.Path # <<>> THEN <<47, 47>> ELSE <<>>)
               \o escape(u.Host, "encodeHost"))
    ELSE <<>>

\* URL.String: scheme, authority and path, given the authority part and the
\* escaped path.  A relative path whose first segment holds a colon is
\* written ./path.
stringFront(u, auth, path) ==
    (IF u.Scheme # <<>> THEN u.Scheme \o <<58>> ELSE <<>>)
    \o (IF u.Opaque # <<>> THEN u.Opaque
        ELSE auth
             \o (IF path # <<>> /\ path[1] # 47 /\ u.Host # <<>> THEN <<47>>
                 ELSE IF u.Scheme = <<>> /\ auth = <<>>
                         /\ IndexByte(Cut(path, 47)[1], 58) # 0
                 THEN <<46, 47>>
                 ELSE <<>>)
             \o path)

\* URL.String
String(u) ==
    stringFront(u, stringAuthority(u), EscapedPath(u))
    \o (IF u.ForceQuery \/ u.RawQuery # <<>> THEN <<63>> \o u.RawQuery ELSE <<>>)
    \o (IF u.Fragment # <<>> THEN <<35>> \o EscapedFragment(u) ELSE <<>>)

\* The loop of url.resolvePath over the segments of full: dst is the path
\* built so far (without its leading '/'), first says no segment was written
\* since the last reset.
RECURSIVE resolveSegments(_, _, _, _)
resolveSegments(segs, i, dst, first) ==
    IF i > Len(segs) THEN dst
    ELSE LET elem == segs[i] IN
         IF elem = <<46>> THEN resolveSegments(segs, i + 1, dst, FALSE)
         ELSE IF elem = <<46, 46>>
         THEN LET index == LastIndexByte(dst, 47) IN
              IF index = 0 THEN resolveSegments(segs, i + 1, <<>>, TRUE)
              ELSE resolveSegments(segs, i + 1, SubSeq(dst, 1, index - 1), first)
         ELSE resolveSegments(segs, i + 1,
                              (IF first THEN dst ELSE dst \o <<47>>) \o elem, FALSE)

\* url.resolvePath: the result for the segments of the full path and the
\* path dst built from them
resolvedPath(last, dst) ==
    IF dst # <<>> /\ dst[1] = 47
    THEN dst \o (IF last = <<46>> \/ last = <<46, 46>> THEN <<47>> ELSE <<>>)
    ELSE <<47>> \o dst \o (IF last = <<46>> \/ last = <<46, 46>> THEN <<47>> ELSE <<>>)

\* url.resolvePath on the segments of the full path
resolveFull(segs) == resolvedPath(segs[Len(segs)], resolveSegments(segs, 1, <<>>, TRUE))

\* url.resolvePath
resolvePath(base, ref) ==
    IF ref = <<>>
    THEN (IF base = <<>> THEN <<>> ELSE resolveFull(Split(base, 47)))
    ELSE IF ref[1] # 47
    THEN resolveFull(Split(SubSeq(base, 1, LastIndexByte(base, 47)) \o ref, 47))
    ELSE resolveFull(Split(ref, 47))

\* URL.ResolveReference, the case of a reference without scheme and host:
\* url is the copy of ref with the scheme of u
resolveRelative(u, ref, url) ==
    IF ref.Opaque # <<>>
    THEN [url EXCEPT !.Host = <<>>, !.Path = <<>>]
    ELSE IF ref.Path = <<>> /\ u.Opaque # <<>>
    THEN [url EXCEPT !.Opaque = u.Opaque, !.Host = <<>>, !.Path = <<>>]
    ELSE setPath([url EXCEPT !.Host = u.Host],
                 resolvePath(EscapedPath(u), EscapedPath(ref)))

\* URL.ResolveReference, url being the copy of ref with the scheme of u
resolveInto(u, ref, url) ==
    IF ref.Scheme # <<>> \/ ref.Host # <<>>
    THEN setPath(url, resolvePath(EscapedPath(ref), <<>>))
    ELSE IF ref.Path = <<>> /\ ~ref.ForceQuery /\ ref.RawQuery = <<>>
    THEN resolveRelative(u, ref,
             [url EXCEPT !.RawQuery = u.RawQuery,
                         !.Fragment = IF ref.Fragment = <<>>
                                      THEN u.Fragment ELSE ref.Fragment,
                         !.RawFragment = IF ref.Fragment = <<>>
                                         THEN u.RawFragment ELSE ref.RawFragment])
    ELSE resolveRelative(u, ref, url)

\* URL.ResolveReference
ResolveReference(u, ref) ==
    resolveInto(u, ref,
                IF ref.Scheme = <<>> THEN [ref EXCEPT !.Scheme = u.Scheme] ELSE ref)

\* URL.Parse after the reference is parsed
resolveParsed(u, refURL) ==
    IF ~refURL.ok THEN BadURL ELSE ResolveReference(u, refURL)

\* URL.Parse: parse ref in the context of the receiver
URLParse(u, ref) == resolveParsed(u, Parse(ref))

-----------------------------------------------------------------------------
(* The URL codec (package transport)                                        *)

\* url.Values.Get(key) after URL.Query(): the first value of key in a raw
\* query string, "" when absent; pairs that fail to unescape are dropped.
RECURSIVE QueryGetFrom(_, _, _)
QueryGetFrom(pairs, i, key) ==
    IF i > Len(pairs) THEN <<>>
    ELSE LET kv == Cut(pairs[i], 61)
             k == QueryUnescape(kv[1])
             v == QueryUnescape(kv[2])
         IN IF /\ IndexByte(pairs[i], 59) = 0
               /\ pairs[i] # <<>>
               /\ k.ok /\ v.ok /\ k.s = key
            THEN v.s
            ELSE QueryGetFrom(pairs, i + 1, key)

QueryGet(rawQuery, key) == QueryGetFrom(Split(rawQuery, 38), 1, key)

ProxyPrefix == B("/proxy?url=")

EncodeProxyPath(targetURL) == ProxyPrefix \o QueryEscape(targetURL)

\* DecodeProxyURL after url.Parse: the scheme test
decodeParsed(decoded, parsed) ==
    IF ~parsed.ok THEN [ok |-> FALSE, url |-> <<>>]
    ELSE IF parsed.Scheme # B("http") /\ parsed.Scheme # B("https")
    THEN [ok |-> FALSE, url |-> <<>>]
    ELSE [ok |-> TRUE, url |-> decoded]

\* DecodeProxyURL after url.QueryUnescape
decodeUnescaped(decoded) ==
    IF ~decoded.ok THEN [ok |-> FALSE, url |-> <<>>]
    ELSE decodeParsed(decoded.s, Parse(decoded.s))

\* DecodeProxyURL: [ok, url]
DecodeProxyURL(encoded) == decodeUnescaped(QueryUnescape(encoded))

\* handleProxy, the decision on the decoded target
targetDecoded(d) ==
    IF ~d.ok THEN [status |-> 400, ok |-> FALSE, url |-> <<>>]
    ELSE [status |-> 0, ok |-> TRUE, url |-> d.url]

\* handleProxy, the decision on the value of the url parameter
targetOfParam(raw) ==
    IF raw = <<>> THEN [status |-> 400, ok |-> FALSE, url |-> <<>>]
    ELSE targetDecoded(DecodeProxyURL(raw))

\* variant of targetOfParam: a failed DecodeProxyURL does not stop the handler
targetOfParam_Unchecked(raw) ==
    IF raw = <<>> THEN [status |-> 400, ok |-> FALSE, url |-> <<>>]
    ELSE [status |-> 0, ok |-> TRUE, url |-> raw]

\* variant of ProxyTarget: a failed DecodeProxyURL does not stop the handler
ProxyTarget_DecodeUnchecked(rawQuery) ==
    targetOfParam_Unchecked(QueryGet(rawQuery, B("url")))

\* handleProxy, up to the decision on the target: the value of the url
\* query parameter (already percent-decoded by URL.Query) is handed to
\* DecodeProxyURL.  [status, ok, url]: status 400 when the handler stops here.
ProxyTarget(rawQuery) == targetOfParam(QueryGet(rawQuery, B("url")))

\* RewriteLocationHeader after base.Parse(location)
rewriteResolved(location, resolved) ==
    IF ~resolved.ok THEN EncodeProxyPath(location)
    ELSE EncodeProxyPath(String(resolved))

\* RewriteLocationHeader after url.Parse(upstreamBase)
rewriteAgainst(base, location) ==
    IF ~base.ok THEN EncodeProxyPath(location)
    ELSE rewriteResolved(location, URLParse(base, location))

\* RewriteLocationHeader
RewriteLocationHeader(upstreamBase, location) ==
    IF location = <<>> THEN <<>>
    ELSE rewriteAgainst(Parse(upstreamBase), location)

\* the segments removeCookieAttr keeps, trimmed
RECURSIVE keptCookieParts(_, _, _)
keptCookieParts(segs, i, target) ==
    IF i > Len(segs) THEN <<>>
    ELSE LET trimmed == TrimSpace(segs[i])
             trimmedLower == ToLower(trimmed)
         IN (IF HasPrefix(trimmedLower, target \o <<61>>) \/ trimmedLower = target
             THEN <<>> ELSE <<trimmed>>)
            \o keptCookieParts(segs, i + 1, target)

\* removeCookieAttr
removeCookieAttr(cookie, attr) ==
    Join(keptCookieParts(Split(cookie, 59), 1, ToLower(attr)), B("; "))

\* RewriteSetCookieDomain: Secure is removed when the proxy is served over http
withoutSecure(out, proxyOrigin) ==
    IF HasPrefix(proxyOrigin, B("http://"))
    THEN removeCookieAttr(out, B("Secure")) ELSE out

\* RewriteSetCookieDomain (proxyHost is not used by the code; ProxyOrigin is
\* the package variable, passed explicitly)
RewriteSetCookieDomain(setCookie, proxyOrigin) ==
    withoutSecure(removeCookieAttr(removeCookieAttr(setCookie, B("Domain")),
                                   B("SameSite")),
                  proxyOrigin)
    \o B("; SameSite=None")
    \o (IF HasPrefix(proxyOrigin, B("https://")) THEN B("; Secure") ELSE <<>>)

-----------------------------------------------------------------------------
(* http.Header: a map from canonical header names to value lists           *)

\* httpguts token bytes (textproto.validHeaderFieldByte)
validHeaderFieldByte(c) ==
    \/ IsAlnum(c)
    \/ c \in {33, 35, 36, 37, 38, 39, 42, 43, 45, 46, 94, 95, 96, 124, 126}

\* textproto.CanonicalMIMEHeaderKey
CanonicalMIMEHeaderKey(s) ==
    IF \E i \in 1..Len(s) : ~validHeaderFieldByte(s[i]) THEN s
    ELSE [i \in 1..Len(s) |->
            IF i = 1 \/ s[i - 1] = 45 THEN ToUpperByte(s[i]) ELSE ToLowerByte(s[i])]

EmptyHeader == [k \in {} |-> <<>>]

\* Header.Get
HGet(h, key) ==
    LET k == CanonicalMIMEHeaderKey(key) IN
    IF k \in DOMAIN h /\ Len(h[k]) > 0 THEN h[k][1] ELSE <<>>

\* Header.Add
HAdd(h, key, value) ==
    LET k == CanonicalMIMEHeaderKey(key) IN
    [x \in DOMAIN h \cup {k} |->
        IF x = k THEN (IF k \in DOMAIN h THEN Append(h[k], value) ELSE <<value>>)
        ELSE h[x]]

\* Header.Set
HSet(h, key, value) ==
    LET k == CanonicalMIMEHeaderKey(key) IN
    [x \in DOMAIN h \cup {k} |-> IF x = k THEN <<value>> ELSE h[x]]

\* Header.Del
HDel(h, key) ==
    LET k == CanonicalMIMEHeaderKey(key) IN
    [x \in DOMAIN h \ {k} |-> h[x]]

\* The header map net/http builds from the header lines of a message: every
\* name is canonicalised, values of one name keep their order.
RECURSIVE ReadHeaderFrom(_, _, _)
ReadHeaderFrom(lines, i, h) ==
    IF i > Len(lines) THEN h
    ELSE ReadHeaderFrom(lines, i + 1, HAdd(h, lines[i][1], lines[i][2]))

ReadHeader(lines) == ReadHeaderFrom(lines, 1, EmptyHeader)

-----------------------------------------------------------------------------
(* Header policy (package transport)                                        *)

hopByHopHeaders ==
    {B("Connection"), B("Keep-Alive"), B("Proxy-Authenticate"),
     B("Proxy-Authorization"), B("Te"), B("Trailer"), B("Transfer-Encoding"),
     B("Upgrade")}

strippedSecurityHeaders ==
    {B("Content-Security-Policy"), B("Content-Security-Policy-Report-Only"),
     B("X-Content-Security-Policy"), B("Cross-Origin-Opener-Policy"),
     B("Cross-Origin-Embedder-Policy"), B("Cross-Origin-Resource-Policy"),
     B("X-Frame-Options"), B("Referrer-Policy"), B("Strict-Transport-Security"),
     B("X-XSS-Protection"), B("Permissions-Policy")}

\* the value CopyResponseHeadersWithContext adds to dst for value v of key k,
\* lower being strings.ToLower(k)
copiedValue(lower, v, targetURL, proxyOrigin) ==
    CASE lower = B("location") -> RewriteLocationHeader(targetURL, v)
      [] lower = B("set-cookie") -> RewriteSetCookieDomain(v, proxyOrigin)
      [] OTHER -> v

\* the values CopyResponseHeadersWithContext adds to dst for key k of src
copiedValues(k, vv, targetURL, proxyOrigin) ==
    [i \in 1..Len(vv) |-> copiedValue(ToLower(k), vv[i], targetURL, proxyOrigin)]

\* variant of copiedKeys: the hop-by-hop test is left out
copiedKeys_KeepHopByHop(src) ==
    {k \in DOMAIN src : k \notin strippedSecurityHeaders}

\* the keys of src that are neither hop-by-hop nor stripped
copiedKeys(src) ==
    {k \in DOMAIN src : k \notin hopByHopHeaders /\ k \notin strippedSecurityHeaders}

\* CopyResponseHeadersWithContext for the keys of src that pass both tests:
\* dst.Add puts each under its canonical name
copyKept(dst, src, kept, targetURL, proxyOrigin) ==
    [x \in DOMAIN dst \cup {CanonicalMIMEHeaderKey(k) : k \in kept} |->
        (IF x \in DOMAIN dst THEN dst[x] ELSE <<>>)
        \o (IF \E k \in kept : CanonicalMIMEHeaderKey(k) = x
            THEN copiedValues(CHOOSE k \in kept : CanonicalMIMEHeaderKey(k) = x,
                              src[CHOOSE k \in kept : CanonicalMIMEHeaderKey(k) = x],
                              targetURL, proxyOrigin)
            ELSE <<>>)]

\* CopyResponseHeadersWithContext: the value of dst afterwards.  The keys of
\* src are distinct, so the order of the range loop does not show.
CopyResponseHeadersWithContext(dst, src, targetURL, proxyOrigin) ==
    copyKept(dst, src, copiedKeys(src), targetURL, proxyOrigin)

\* ExtractOrigin after url.Parse
originOf(u) == IF ~u.ok THEN <<>> ELSE u.Scheme \o B("://") \o u.Host

\* ExtractOrigin
ExtractOrigin(rawURL) == originOf(Parse(rawURL))

\* the media type of mime.ParseMediaType: what precedes the first ';',
\* trimmed and lower-cased
ParseMediaType(ct) == ToLower(TrimSpace(Cut(ct, 59)[1]))

\* DetectContentType
DetectContentType(h) ==
    LET ct == HGet(h, B("Content-Type")) IN
    IF ct = <<>> THEN B("application/octet-stream") ELSE ParseMediaType(ct)

\* Categorize
Categorize(mediaType) ==
    IF Contains(mediaType, B("html")) THEN "ContentHTML"
    ELSE IF mediaType = B("text/css") THEN "ContentCSS"
    ELSE IF Contains(mediaType, B("javascript")) THEN "ContentJS"
    ELSE "ContentOther"

safeRequestHeaders ==
    <<B("Accept"), B("Accept-Charset"), B("Accept-Language"), B("Accept-Encoding"),
      B("Content-Type"), B("Content-Length"), B("User-Agent"), B("Referer"),
      B("Origin"), B("Authorization"), B("X-Requested-With"), B("X-CSRF-Token"),
      B("If-Modified-Since"), B("If-None-Match"), B("If-Match"),
      B("If-Unmodified-Since"), B("Cache-Control"), B("Range"), B("DNT")>>

\* dst after Set(k, v) when v is not empty
setNonEmpty(dst, k, v) == IF v # <<>> THEN HSet(dst, k, v) ELSE dst

\* forwardHeaders: dst after the loop over keys from position i
RECURSIVE forwardHeadersFrom(_, _, _, _)
forwardHeadersFrom(dst, src, keys, i) ==
    IF i > Len(keys) THEN dst
    ELSE forwardHeadersFrom(setNonEmpty(dst, keys[i], HGet(src, keys[i])),
                            src, keys, i + 1)

\* forwardHeaders with no list of safe names: every header of src is copied
forwardHeaders_AllHeaders(dst, src) ==
    [k \in DOMAIN dst \cup DOMAIN src |->
        IF k \in DOMAIN src THEN <<src[k][1]>> ELSE dst[k]]

\* forwardHeaders
forwardHeaders(dst, src) == forwardHeadersFrom(dst, src, safeRequestHeaders, 1)

-----------------------------------------------------------------------------
(* Session store (package transport, unnamed part 0)                        *)

\* textproto.TrimString: ASCII space, tab, CR, LF
TrimString(s) ==
    LET I == {i \in 1..Len(s) : s[i] \notin {32, 9, 10, 13}} IN
    IF I = {} THEN <<>> ELSE SubSeq(s, Min(I), Max(I))

\* http.isCookieNameValid: a non-empty token
isCookieNameValid(raw) ==
    raw # <<>> /\ \A i \in 1..Len(raw) : validHeaderFieldByte(raw[i])

\* http.parseCookieValue: [ok, s]
parseCookieValue(raw, allowDoubleQuote) ==
    LET v == IF allowDoubleQuote /\ Len(raw) > 1 /\ raw[1] = 34 /\ raw[Len(raw)] = 34
             THEN SubSeq(raw, 2, Len(raw) - 1) ELSE raw
    IN IF \A i \in 1..Len(v) : v[i] >= 32 /\ v[i] < 127 /\ v[i] \notin {34, 59, 92}
       THEN [ok |-> TRUE, s |-> v] ELSE [ok |-> FALSE, s |-> <<>>]

\* time.Parse of an Expires value.  Instants are natural numbers (0 is the
\* zero time.Time); the date text of instant d is "T" followed by the digit d.
timeParse(val) ==
    IF Len(val) = 2 /\ val[1] = 84 /\ IsDigit(val[2])
    THEN [ok |-> TRUE, t |-> val[2] - 48] ELSE [ok |-> FALSE, t |-> 0]

\* the attribute loop of http.readSetCookies, for the fields the store reads
RECURSIVE cookieAttrs(_, _, _)
cookieAttrs(parts, i, c) ==
    IF i > Len(parts) THEN c
    ELSE LET part == TrimString(parts[i])
             kv == Cut(part, 61)
             lowerAttr == ToLower(kv[1])
             val == parseCookieValue(kv[2], FALSE)
         IN IF part = <<>> \/ ~val.ok THEN cookieAttrs(parts, i + 1, c)
            ELSE IF lowerAttr = B("path")
            THEN cookieAttrs(parts, i + 1, [c EXCEPT !.Path = val.s])
            ELSE IF lowerAttr = B("expires")
            THEN cookieAttrs(parts, i + 1, [c EXCEPT !.Expires = timeParse(val.s).t])
            ELSE cookieAttrs(parts, i + 1, c)

\* http.readSetCookies over the Set-Cookie lines from position i
RECURSIVE readSetCookiesFrom(_, _)
readSetCookiesFrom(lines, i) ==
    IF i > Len(lines) THEN <<>>
    ELSE LET parts == Split(TrimString(lines[i]), 59)
             first == TrimString(parts[1])
             nv == Cut(first, 61)
             name == TrimString(nv[1])
             value == parseCookieValue(nv[2], TRUE)
         IN (IF nv[3] /\ isCookieNameValid(name) /\ value.ok
             THEN <<cookieAttrs(parts, 2, [Name |-> name, Value |-> value.s,
                                           Path |-> <<>>, Expires |-> 0])>>
             ELSE <<>>)
            \o readSetCookiesFrom(lines, i + 1)

\* Response.Cookies
Cookies(header) ==
    IF B("Set-Cookie") \in DOMAIN header
    THEN readSetCookiesFrom(header[B("Set-Cookie")], 1) ELSE <<>>

EmptyOrigins == [o \in {} |-> <<>>]

\* the OriginSession getOrCreate inserts
NewOriginSession ==
    [Cookies |-> <<>>, LocalStorage |-> [k \in {} |-> <<>>],
     SessionStorage |-> [k \in {} |-> <<>>]]

\* getOrCreate: the origins map afterwards
getOrCreate(origins, origin) ==
    IF origin \in DOMAIN origins THEN origins
    ELSE [o \in DOMAIN origins \cup {origin} |->
            IF o = origin THEN NewOriginSession ELSE origins[o]]

\* the upsert loop of SetCookiesFromResponse: the cookie list afterwards
RECURSIVE upsertCookies(_, _, _)
upsertCookies(stored, cookies, i) ==
    IF i > Len(cookies) THEN stored
    ELSE LET c == cookies[i]
             hits == {j \in 1..Len(stored) :
                         stored[j].Name = c.Name /\ EqualFold(stored[j].Path, c.Path)}
         IN upsertCookies(IF hits # {} THEN [stored EXCEPT ![Min(hits)] = c]
                          ELSE Append(stored, c),
                          cookies, i + 1)

\* variant of storeCookies: every cookie is appended
storeCookies_Append(origins, origin, cookies) ==
    IF Len(cookies) = 0 THEN origins
    ELSE [getOrCreate(origins, origin) EXCEPT ![origin].Cookies = @ \o cookies]

\* SessionStore.SetCookiesFromResponse for the cookies resp.Cookies returns
storeCookies(origins, origin, cookies) ==
    IF Len(cookies) = 0 THEN origins
    ELSE [getOrCreate(origins, origin) EXCEPT
            ![origin].Cookies = upsertCookies(@, cookies, 1)]

\* SessionStore.SetCookiesFromResponse: the origins map afterwards
SetCookiesFromResponse(origins, origin, respHeader) ==
    storeCookies(origins, origin, Cookies(respHeader))

\* the name=value parts CookieHeader collects
RECURSIVE cookieParts(_, _, _)
cookieParts(stored, i, nowT) ==
    IF i > Len(stored) THEN <<>>
    ELSE (IF stored[i].Expires # 0 /\ stored[i].Expires < nowT
          THEN <<>> ELSE <<stored[i].Name \o <<61>> \o stored[i].Value>>)
         \o cookieParts(stored, i + 1, nowT)

\* variant of CookieHeader: expired cookies are not skipped
CookieHeader_KeepExpired(origins, origin, nowT) ==
    IF origin \notin DOMAIN origins THEN <<>>
    ELSE Join([i \in 1..Len(origins[origin].Cookies) |->
                 origins[origin].Cookies[i].Name \o <<61>>
                     \o origins[origin].Cookies[i].Value],
              B("; "))

\* SessionStore.CookieHeader
CookieHeader(origins, origin, nowT) ==
    IF origin \notin DOMAIN origins THEN <<>>
    ELSE Join(cookieParts(origins[origin].Cookies, 1, nowT), B("; "))

\* SessionStore.DeleteCookie: the origins map afterwards
DeleteCookie(origins, origin, name) ==
    IF origin \notin DOMAIN origins THEN origins
    ELSE LET cs == origins[origin].Cookies
             hits == {i \in 1..Len(cs) : cs[i].Name = name}
         IN IF hits = {} THEN origins
            ELSE [origins EXCEPT ![origin].Cookies =
                    SubSeq(cs, 1, Min(hits) - 1) \o SubSeq(cs, Min(hits) + 1, Len(cs))]

\* SessionStore.ClearAll: the origins map afterwards
ClearAll(origins) == EmptyOrigins

-----------------------------------------------------------------------------
(* Upstream fetcher (package transport, unnamed part 1)                     *)

\* the CheckRedirect bound of httpClient
MaxRedirects == 10

\* variant of CheckRedirect: the limit test is len(via) > 10
CheckRedirect_Late(nvia) == ~(nvia > MaxRedirects)

\* httpClient.CheckRedirect: TRUE iff it returns nil for len(via) = nvia
CheckRedirect(nvia) == ~(nvia >= MaxRedirects)

\* isWebSocketUpgrade
isWebSocketUpgrade(h) ==
    /\ EqualFold(HGet(h, B("Upgrade")), B("websocket"))
    /\ Contains(ToLower(HGet(h, B("Connection"))), B("upgrade"))

\* injectCookies for a non-empty cookieHeader, existing being the request's
\* own Cookie header
mergeCookies(reqHeader, existing, cookieHeader) ==
    IF existing # <<>>
    THEN HSet(reqHeader, B("Cookie"), existing \o B("; ") \o cookieHeader)
    ELSE HSet(reqHeader, B("Cookie"), cookieHeader)

\* injectCookies: the request header afterwards
injectCookies(reqHeader, cookieHeader) ==
    IF cookieHeader = <<>> THEN reqHeader
    ELSE mergeCookies(reqHeader, HGet(reqHeader, B("Cookie")), cookieHeader)

\* the Sec-WebSocket-* copy loop of fetchInternal
RECURSIVE copyWebSocketHeaders(_, _, _, _)
copyWebSocketHeaders(dst, src, keys, i) ==
    IF i > Len(keys) THEN dst
    ELSE copyWebSocketHeaders(setNonEmpty(dst, keys[i], HGet(src, keys[i])),
                              src, keys, i + 1)

NoReq == [method |-> "", url |-> <<>>, header |-> EmptyHeader]

\* fetchInternal: the ws and wss schemes become http and https
httpScheme(parsed) ==
    IF parsed.Scheme = B("ws") THEN [parsed EXCEPT !.Scheme = B("http")]
    ELSE IF parsed.Scheme = B("wss") THEN [parsed EXCEPT !.Scheme = B("https")]
    ELSE parsed

\* fetchInternal: req.Header after Set(key, value) when the client sent key
rewriteIfSent(h, headers, key, value) ==
    IF HGet(headers, key) # <<>> THEN HSet(h, key, value) ELSE h

\* fetchInternal: req.Header after the WebSocket upgrade block
upgradeHeaders(h, headers) ==
    IF isWebSocketUpgrade(headers)
    THEN copyWebSocketHeaders(
             HSet(HSet(h, B("Connection"), B("Upgrade")), B("Upgrade"), B("websocket")),
             headers,
             <<B("Sec-WebSocket-Key"), B("Sec-WebSocket-Version"),
               B("Sec-WebSocket-Extensions"), B("Sec-WebSocket-Protocol")>>,
             1)
    ELSE h

\* fetchInternal: req.Header as handed to the transport
requestHeader(parsed, targetURL, headers, cookieHeader) ==
    upgradeHeaders(
        injectCookies(
            rewriteIfSent(
                rewriteIfSent(
                    HSet(HSet(forwardHeaders(EmptyHeader, headers),
                              B("Accept-Encoding"), B("identity")),
                         B("Host"), parsed.Host),
                    headers, B("Origin"), parsed.Scheme \o B("://") \o parsed.Host),
                headers, B("Referer"), targetURL),
            cookieHeader),
        headers)

\* fetchInternal after url.Parse(targetURL)
fetchParsed(parsed, targetURL, method, headers, cookieHeader) ==
    IF ~parsed.ok THEN [ok |-> FALSE, req |-> NoReq]
    ELSE [ok |-> TRUE,
          req |-> [method |-> IF method = "" THEN "GET" ELSE method,
                   url |-> IF parsed.Scheme \in {B("ws"), B("wss")}
                           THEN String(httpScheme(parsed)) ELSE targetURL,
                   header |-> requestHeader(httpScheme(parsed), targetURL, headers,
                                            cookieHeader)]]

\* fetchInternal up to the point the request is handed to the transport:
\* [ok, req]; ok is FALSE when url.Parse or http.NewRequest fails
fetchInternal(targetURL, method, headers, cookieHeader) ==
    fetchParsed(Parse(targetURL), targetURL, method, headers, cookieHeader)

\* URL.Hostname for a host that is not an IP literal
Hostname(host) ==
    LET i == LastIndexByte(host, 58) IN
    IF i = 0 THEN host ELSE SubSeq(host, 1, i - 1)

\* http.isDomainOrSubdomain
isDomainOrSubdomain(sub, parent) ==
    \/ sub = parent
    \/ HasSuffix(sub, <<46>> \o parent)

\* http.Client.Do, redirect statuses it follows for a request without a body
IsRedirectStatus(status) == status \in {301, 302, 303, 307, 308}

\* http.refererForURL, explicit being the Referer of the initial request
refererForURL(lastURL, u, explicit) ==
    IF lastURL.Scheme = B("https") /\ u.Scheme = B("http") THEN <<>>
    ELSE IF explicit # <<>> THEN explicit
    ELSE String(lastURL)

\* http.Client.Do: the redirect request gets the Referer ref unless it is empty
withReferer(h, ref) == IF ref # <<>> THEN HSet(h, B("Referer"), ref) ELSE h

\* http.makeHeadersCopier: the headers of the initial request a redirect
\* keeps; the sensitive ones only when trusted
copiedOnRedirect(header, trusted) ==
    [k \in {x \in DOMAIN header :
               \/ x \notin {B("Authorization"), B("Www-Authenticate"), B("Cookie"),
                            B("Cookie2")}
               \/ trusted} |-> header[k]]

\* http.Client.Do: the request that follows a redirect of last to URL u
\* (header copy of makeHeadersCopier and the Referer of refererForURL)
redirectRequest(ireq, last, u) ==
    [method |-> ireq.method,
     url |-> String(u),
     header |-> withReferer(
                    copiedOnRedirect(ireq.header,
                                     isDomainOrSubdomain(Hostname(u.Host),
                                                         Hostname(Parse(ireq.url).Host))),
                    refererForURL(Parse(last.url), u, HGet(ireq.header, B("Referer"))))]

-----------------------------------------------------------------------------
(* Proxy dispatcher (package transport, handleProxy)                        *)

\* http.Error: the response header afterwards
httpErrorHeader(h) ==
    HSet(HSet(HDel(h, B("Content-Length")), B("Content-Type"),
              B("text/plain; charset=utf-8")),
         B("X-Content-Type-Options"), B("nosniff"))

httpError(h, code) == [status |-> code, header |-> httpErrorHeader(h), body |-> "error"]

\* handleProxy after the header copy, hdr being the client's header set and
\* category the content category of the upstream response
writeCategory(method, status, hdr, category, bodyErr) ==
    IF method = "HEAD"
    THEN [status |-> status, header |-> hdr, body |-> "none"]
    ELSE IF category = "ContentOther"
    THEN [status |-> status, header |-> hdr, body |-> "streamed"]
    ELSE IF bodyErr THEN httpError(hdr, 502)
    ELSE [status |-> status, header |-> HDel(hdr, B("Content-Length")),
          body |-> category]

\* handleProxy after the 101 test: the response written for upstream response
\* resp; bodyErr says io.ReadAll of the upstream body fails
writeResponse(method, targetURL, resp, proxyOrigin, bodyErr) ==
    writeCategory(method, resp.status,
                  CopyResponseHeadersWithContext(EmptyHeader, resp.header, targetURL,
                                                 proxyOrigin),
                  Categorize(DetectContentType(resp.header)),
                  bodyErr)

\* hijackWebSocket: upResp.Write(clientConn) relays the upstream status line
\* and header set as they are
hijackResponse(resp) == [status |-> resp.status, header |-> resp.header, body |-> "bridge"]

-----------------------------------------------------------------------------
(* State                                                                    *)

VARIABLES
    ProxyOrigin, \* the package variable ProxyOrigin
    cT,         \* codec run: the target URL given to EncodeProxyPath
    cEncoded,   \* codec run: EncodeProxyPath(cT)
    cDecoded,   \* codec run: DecodeProxyURL of the value after /proxy?url=
    cDispatch,  \* codec run: the target handleProxy obtains for GET cEncoded
    cStep,      \* codec run: "start", "encoded", "decoded", "dispatched"
    origins,    \* DefaultSessions.origins: origin -> OriginSession
    now,        \* the instant time.Now returns
    hPc,        \* handleProxy: "idle", "fetching", "bridge", "done"
    hReq,       \* handleProxy: the client request r
    hTarget,    \* handleProxy: targetURL
    upFirst,    \* httpClient.Do: the request fetchInternal built (reqs[0])
    upReq,      \* the upstream request awaiting its response
    hVia,       \* httpClient.Do: len(reqs), the upstream requests sent
    hFirst,     \* the upstream's response to upFirst
    hLast,      \* the upstream's latest response
    hErr,       \* the error the fetch returned: "none", "parse", "net",
                \* "location", "redirects"
    hResp,      \* what handleProxy wrote to the client
    fLines,     \* header run: the upstream header lines as sent
    fDst,       \* header run: the client header set after the copy
    fStep,      \* header run: "start", "copied"
    kIn,        \* cookie run: the upstream Set-Cookie value
    kOut,       \* cookie run: the Set-Cookie values forwarded
    kStep       \* cookie run: "start", "forwarded"

codecVars == <<cT, cEncoded, cDecoded, cDispatch, cStep>>

proxyVars == <<origins, now, hPc, hReq, hTarget, upFirst, upReq, hVia, hFirst,
               hLast, hErr, hResp>>

headerVars == <<fLines, fDst, fStep>>

cookieVars == <<kIn, kOut, kStep>>

\* the initial value of the package variable ProxyOrigin
DefaultProxyOrigin == B("http://localhost:8080")

NoResp == [status |-> 0, header |-> EmptyHeader]

NoOut == [status |-> 0, header |-> EmptyHeader, body |-> "none"]

NoClientReq == [method |-> "", rawQuery |-> <<>>, header |-> EmptyHeader]

\* no /proxy request is in progress
HandlerIdle ==
    /\ hPc = "idle"
    /\ hReq = NoClientReq
    /\ hTarget = <<>>
    /\ upFirst = NoReq
    /\ upReq = NoReq
    /\ hVia = 0
    /\ hFirst = NoResp
    /\ hLast = NoResp
    /\ hErr = "none"
    /\ hResp = NoOut

ProxyIdle ==
    /\ origins = EmptyOrigins
    /\ now = 1
    /\ HandlerIdle

HeadersIdle ==
    /\ fLines = <<>>
    /\ fDst = EmptyHeader
    /\ fStep = "idle"

CookieIdle ==
    /\ kIn = <<>>
    /\ kOut = <<>>
    /\ kStep = "idle"

\* The state of the later runs: static files, the fetcher's request, the
\* resolver, the page rewriter, storage, body rewriting, cancellation, the
\* store under concurrency, navigation, the store's operations and the bridge
VARIABLES
    sReq,       \* static run: the request line, method and escaped path
    sFiles,     \* static run: the names os.ReadFile can read
    sOut,       \* static run: the handler the mux chose and what it did
    sStep,      \* static run: "start", "served"
    qTarget,    \* fetch run: targetURL
    qMethod,    \* fetch run: the client's method
    qHeaders,   \* fetch run: the client's request header
    qCookie,    \* fetch run: the cookie string from the session store
    qReq,       \* fetch run: the upstream request fetchInternal built
    qStep,      \* fetch run: "start", "built"
    uRaw,       \* resolver run: the raw URL
    uBase,      \* resolver run: the base URL the page was injected with
    uHost,      \* resolver run: the host the proxy is reached at
    uHref,      \* resolver run: location.href of the runtime's window
    uCell,      \* resolver run: the runtime's base cell
    uRuntime,   \* resolver run: what rewriteUrl returned
    uServer,    \* resolver run: what resolveProxyUrl returned
    pHtml,      \* page run: the HTML text
    pBase,      \* page run: the base URL, the target of the page
    pCell,      \* page run: the runtime's base cell
    pRuntime,   \* page run: what rewriteHtml returned
    pServer,    \* page run: what rewriteHtmlUrls returned
    wReal,      \* storage run: the real Storage object, its <<key, value>> pairs in key(i) order
    wCell,      \* storage run: the runtime's base cell
    wLast,      \* storage run: the latest wrapper call, what it returned and the real storage before it
    wCount,     \* storage run: the number of calls made
    rwMethod,   \* rewrite run: the client's method
    rwResp,     \* rewrite run: the upstream response, its body as bytes
    rwCall,     \* rewrite run: the call of the Rust function and what it returned
    rwOut,      \* rewrite run: what handleProxy wrote to the client
    rwStep,     \* rewrite run: "fetched", "done"
    kMethod,    \* cancel run: the client's method
    kPc,        \* cancel run: where handleProxy is: "do", "copyRead", "copyWrite", "readAll", "returned"
    kClient,    \* cancel run: the client connection: "connected", "gone"
    kCtxDone,   \* cancel run: whether r.Context() is cancelled
    kUp,        \* cancel run: what the upstream server did on its connection
    kRead,      \* cancel run: the chunks of the upstream body the handler read
    kBuffered,  \* cancel run: the writes the response buffer took after the client left
    kBody,      \* cancel run: resp.Body: "none", "open", "closed"
    kStatus,    \* cancel run: the status handleProxy wrote, 0 for none
    zExists,    \* store run: whether the origins map holds the origin's session
    zCookies,   \* store run: sess.Cookies of the origin
    zStoreMu,   \* store run: SessionStore.mu, who holds it
    zSessMu,    \* store run: OriginSession.mu, who holds it
    zProc,      \* store run: each goroutine's call: its place, loop index and locals
    zSnaps,     \* store run: the cookie lists that existed between absorb calls
    zResults,   \* store run: the strings CookieHeader returned
    nCell,      \* navigation run: the runtime's base cell
    nHref,      \* navigation run: location.href of the window, a URL of the proxy
    nLast,      \* navigation run: the latest call, its URL argument, what it returned and the cell before it
    nCount,     \* navigation run: the number of calls made
    gPc,        \* bridge run: where hijackWebSocket is: "probe", "relay", "start", "wait", "returned"
    gSent,      \* bridge run: what of the 101 answer reached the client socket: "status", "header"
    gUp,        \* bridge run: the goroutine copy(upConn, clientConn): "read", "send", "ended"
    gDown,      \* bridge run: the goroutine copy(clientConn, upConn): "read", "send", "ended"
    gDone,      \* bridge run: the values waiting in the channel done
    gPeers,     \* bridge run: each peer's side: "open", "closed"
    gConns,     \* bridge run: clientConn and upConn in the handler: "open", "closed"
    gData,      \* bridge run: the frames each peer sent that were not read yet
    gTotal,     \* bridge run: the frames the peers sent in all
    jOrigins,   \* store run: SessionStore.origins, each session by value
    jPrev,      \* store run: the origins map before the last operation
    jOp,        \* store run: the last operation and its arguments
    jCount,     \* store run: the operations done
    yHeap,      \* concurrent store run: the OriginSession objects allocated so far
    ySessMu,    \* concurrent store run: the mutex of each OriginSession
    yMap,       \* concurrent store run: s.origins[origin] as an index into the objects, 0 when absent
    yStoreMu,   \* concurrent store run: s.mu
    yProc,      \* concurrent store run: each goroutine's position, its local sess and the locks it holds
    yCleared    \* concurrent store run: the ClearAll calls that returned

staticVars == <<sReq, sFiles, sOut, sStep>>

fetchVars == <<qTarget, qMethod, qHeaders, qCookie, qReq, qStep>>

resolveVars == <<uRaw, uBase, uHost, uHref, uCell, uRuntime, uServer>>

pageVars == <<pHtml, pBase, pCell, pRuntime, pServer>>

storageVars == <<wReal, wCell, wLast, wCount>>

rewriteVars == <<rwMethod, rwResp, rwCall, rwOut, rwStep>>

cancelVars == <<kMethod, kPc, kClient, kCtxDone, kUp, kRead, kBuffered, kBody, kStatus>>

storeVars == <<zExists, zCookies, zStoreMu, zSessMu, zProc, zSnaps, zResults>>

navVars == <<nCell, nHref, nLast, nCount>>

bridgeVars == <<gPc, gSent, gUp, gDown, gDone, gPeers, gConns, gData, gTotal>>

jarVars == <<jOrigins, jPrev, jOp, jCount>>

heapVars == <<yHeap, ySessMu, yMap, yStoreMu, yProc, yCleared>>

StaticIdle ==
    /\ sReq = [method |-> "", path |-> <<>>]
    /\ sFiles = {}
    /\ sOut = [handler |-> "", status |-> 0, read |-> <<>>, served |-> <<>>]
    /\ sStep = "idle"

FetchIdle ==
    /\ qTarget = <<>>
    /\ qMethod = ""
    /\ qHeaders = EmptyHeader
    /\ qCookie = <<>>
    /\ qReq = [ok |-> FALSE, req |-> NoReq]
    /\ qStep = "idle"

ResolveIdle ==
    /\ uRaw = <<>>
    /\ uBase = <<>>
    /\ uHost = <<>>
    /\ uHref = <<>>
    /\ uCell = [BASE_URL |-> <<>>, BASE_ORIGIN |-> <<>>]
    /\ uRuntime = [done |-> FALSE, s |-> <<>>]
    /\ uServer = [done |-> FALSE, s |-> <<>>]

PageIdle ==
    /\ pHtml = <<>>
    /\ pBase = <<>>
    /\ pCell = [BASE_URL |-> <<>>, BASE_ORIGIN |-> <<>>]
    /\ pRuntime = [done |-> FALSE, s |-> <<>>]
    /\ pServer = [done |-> FALSE, s |-> <<>>]

StorageIdle ==
    /\ wReal = <<>>
    /\ wCell = [BASE_URL |-> <<>>, BASE_ORIGIN |-> <<>>]
    /\ wLast = [op |-> "idle", k |-> <<>>, v |-> <<>>, idx |-> 0, ret |-> <<>>, prev |-> <<>>]
    /\ wCount = 0

RewriteIdle ==
    /\ rwMethod = ""
    /\ rwResp = [status |-> 0, header |-> EmptyHeader, body |-> <<>>, bodyErr |-> FALSE]
    /\ rwCall = [called |-> FALSE, kind |-> "", proxyOrigin |-> <<>>, baseURL |-> <<>>, content |-> <<>>, isNil |-> FALSE, s |-> <<>>]
    /\ rwOut = [status |-> 0, header |-> EmptyHeader, body |-> <<>>]
    /\ rwStep = "idle"

CancelIdle ==
    /\ kMethod = ""
    /\ kPc = "idle"
    /\ kClient = "idle"
    /\ kCtxDone = FALSE
    /\ kUp = [headers |-> FALSE, category |-> "", sent |-> 0, ended |-> FALSE, failed |-> FALSE]
    /\ kRead = 0
    /\ kBuffered = 0
    /\ kBody = "none"
    /\ kStatus = 0

StoreIdle ==
    /\ zExists = FALSE
    /\ zCookies = <<>>
    /\ zStoreMu = [writer |-> 0, readers |-> {}]
    /\ zSessMu = [writer |-> 0, readers |-> {}]
    /\ zProc = <<>>
    /\ zSnaps = {}
    /\ zResults = {}

NavIdle ==
    /\ nCell = [BASE_URL |-> <<>>, BASE_ORIGIN |-> <<>>]
    /\ nHref = <<>>
    /\ nLast = [op |-> "idle", url |-> <<>>, ret |-> <<>>, prev |-> [BASE_URL |-> <<>>, BASE_ORIGIN |-> <<>>]]
    /\ nCount = 0

BridgeIdle ==
    /\ gPc = "idle"
    /\ gSent = "none"
    /\ gUp = "none"
    /\ gDown = "none"
    /\ gDone = 0
    /\ gPeers = [client |-> "idle", upstream |-> "idle"]
    /\ gConns = [client |-> "idle", upstream |-> "idle"]
    /\ gData = [client |-> 0, upstream |-> 0]
    /\ gTotal = 0

JarIdle ==
    /\ jOrigins = EmptyOrigins
    /\ jPrev = EmptyOrigins
    /\ jOp = [name |-> "none"]
    /\ jCount = 0

HeapIdle ==
    /\ yHeap = <<>>
    /\ ySessMu = <<>>
    /\ yMap = 0
    /\ yStoreMu = [w |-> 0, writer |-> 0, readers |-> {}]
    /\ yProc = <<>>
    /\ yCleared = 0

laterVars == <<staticVars, fetchVars, resolveVars, pageVars, storageVars, rewriteVars, cancelVars, storeVars, navVars, bridgeVars, jarVars, heapVars>>

LaterIdle ==
    /\ StaticIdle
    /\ FetchIdle
    /\ ResolveIdle
    /\ PageIdle
    /\ StorageIdle
    /\ RewriteIdle
    /\ CancelIdle
    /\ StoreIdle
    /\ NavIdle
    /\ BridgeIdle
    /\ JarIdle
    /\ HeapIdle

vars == <<ProxyOrigin, codecVars, proxyVars, headerVars, cookieVars, laterVars>>

-----------------------------------------------------------------------------
(* Codec runs: EncodeProxyPath, then DecodeProxyURL directly or through    *)
(* the dispatcher's query extraction.                                       *)

MaxTail == 2

\* bytes a target's path-and-query tail is drawn from:
\* a % 4 1 + space ? # and the non-ASCII byte 0xC3
TailBytes == {97, 37, 52, 49, 43, 32, 63, 35, 195}

Tails == UNION {[1..n -> TailBytes] : n \in 0..MaxTail}

Schemes == {B("http"), B("https"), B("ws"), B("wss"), B("ftp")}

Targets == {s \o B("://a.b/") \o t : s \in Schemes, t \in Tails}

NoResult == [ok |-> FALSE, url |-> <<>>]

CodecIdle ==
    /\ cT = <<>>
    /\ cEncoded = <<>>
    /\ cDecoded = NoResult
    /\ cDispatch = NoResult
    /\ cStep = "idle"

InitCodec ==
    /\ cT \in Targets
    /\ cEncoded = <<>>
    /\ cDecoded = NoResult
    /\ cDispatch = NoResult
    /\ cStep = "start"
    /\ ProxyOrigin = DefaultProxyOrigin
    /\ ProxyIdle
    /\ HeadersIdle
    /\ CookieIdle
    /\ LaterIdle

notCodec == <<ProxyOrigin, proxyVars, headerVars, cookieVars, laterVars>>

Encode ==
    /\ cStep = "start"
    /\ cEncoded' = EncodeProxyPath(cT)
    /\ cStep' = "encoded"
    /\ UNCHANGED <<cT, cDecoded, cDispatch, notCodec>>

Decode ==
    /\ cStep = "encoded"
    /\ cDecoded' = DecodeProxyURL(SubSeq(cEncoded, Len(ProxyPrefix) + 1, Len(cEncoded)))
    /\ cStep' = "decoded"
    /\ UNCHANGED <<cT, cEncoded, cDispatch, notCodec>>

\* what the dispatcher obtains, as a DecodeProxyURL result
Obtained(t) == [ok |-> t.ok, url |-> t.url]

\* GET cEncoded reaches handleProxy with RawQuery = what follows the '?'
Dispatch ==
    /\ cStep = "encoded"
    /\ cDispatch' = Obtained(ProxyTarget(Cut(cEncoded, 63)[2]))
    /\ cStep' = "dispatched"
    /\ UNCHANGED <<cT, cEncoded, cDecoded, notCodec>>

NextCodec == Encode \/ Decode \/ Dispatch

SpecCodec == InitCodec /\ [][NextCodec]_vars

SchemeOf(T) == Parse(T).Scheme

\* T is a URL (url.Parse accepts it) with one of the given schemes
IsTarget(T, schemes) == Parse(T).ok /\ SchemeOf(T) \in schemes

\* C1: for every target URL T whose scheme is http, https, ws or wss,
\* DecodeProxyURL of the value EncodeProxyPath(T) places after /proxy?url=
\* succeeds and returns exactly T.
C1_RoundTrip ==
    (cStep = "decoded" /\ IsTarget(cT, {B("http"), B("https"), B("ws"), B("wss")}))
        => cDecoded = [ok |-> TRUE, url |-> cT]

\* C2: for GET /proxy?url=<EncodeProxyPath(T) value> the target the
\* dispatcher obtains equals T, also when T holds ? # % + spaces, escapes or
\* non-ASCII bytes (stated for the http and https targets DecodeProxyURL takes).
C2_DispatchTarget ==
    (cStep = "dispatched" /\ IsTarget(cT, {B("http"), B("https")}))
        => cDispatch = [ok |-> TRUE, url |-> cT]

-----------------------------------------------------------------------------
(* Proxy runs: one /proxy request at a time through handleProxy, the       *)
(* upstream answering each request fetchInternal or the redirect loop of   *)
(* httpClient.Do sends; cookie-store operations and the clock interleave.  *)

MaxTime == 2

UrlPage == B("url=https%3A%2F%2Fexample.com%2Fpage")

UpgradeLines ==
    <<<<B("upgrade"), B("websocket")>>, <<B("connection"), B("Upgrade")>>,
      <<B("sec-websocket-key"), B("k1")>>>>

\* client requests routed to handleProxy: [method, rawQuery, header]
ClientRequests ==
    { [method |-> "GET", rawQuery |-> UrlPage, header |-> EmptyHeader],
      [method |-> "HEAD", rawQuery |-> UrlPage,
       header |-> ReadHeader(<<<<B("referer"), B("http://localhost:8080/")>>,
                               <<B("cookie"), B("own=1")>>,
                               <<B("x-forwarded-for"), B("10.0.0.1")>>>>)],
      [method |-> "GET", rawQuery |-> UrlPage, header |-> ReadHeader(UpgradeLines)],
      [method |-> "GET", rawQuery |-> B("url=wss%3A%2F%2Fws.example.com%2Fs"),
       header |-> ReadHeader(UpgradeLines)],
      [method |-> "GET", rawQuery |-> <<>>, header |-> EmptyHeader],
      [method |-> "GET", rawQuery |-> B("x=1&url="), header |-> EmptyHeader],
      [method |-> "GET", rawQuery |-> B("url=%zz"), header |-> EmptyHeader],
      [method |-> "GET", rawQuery |-> B("url=ftp%3A%2F%2Fexample.com%2F"),
       header |-> EmptyHeader],
      [method |-> "GET", rawQuery |-> B("url=example.com"), header |-> EmptyHeader] }

\* upstream responses: [status, header, bodyErr]; header is what the
\* transport parsed from the lines sent, bodyErr says reading the body fails
Response(status, lines, bodyErr) ==
    [status |-> status, header |-> ReadHeader(lines), bodyErr |-> bodyErr]

PlainText == Response(200, <<<<B("content-type"), B("text/plain")>>>>, FALSE)

FoundBare == Response(302, <<<<B("content-length"), B("0")>>>>, FALSE)

PlainResponses ==
    { PlainText,
      FoundBare,
      Response(200, <<<<B("content-type"), B("text/html; charset=utf-8")>>,
                      <<B("content-length"), B("5")>>,
                      <<B("set-cookie"),
                        B("sid=abc; Domain=example.com; Secure; SameSite=Strict")>>>>,
               FALSE),
      Response(200, <<<<B("content-type"), B("text/html")>>>>, TRUE),
      Response(200, <<<<B("set-cookie"), B("sid=xyz")>>,
                      <<B("set-cookie"), B("t=1; Expires=T1")>>>>, FALSE),
      Response(200, <<<<B("content-type"), B("text/css")>>,
                      <<B("content-security-policy"), B("default-src 'none'")>>,
                      <<B("x-xss-protection"), B("1")>>,
                      <<B("x-frame-options"), B("DENY")>>,
                      <<B("keep-alive"), B("timeout=5")>>,
                      <<B("connection"), B("keep-alive")>>,
                      <<B("proxy-authenticate"), B("Basic")>>>>, FALSE) }

RedirectResponses ==
    { Response(302, <<<<B("location"), B("/next")>>>>, FALSE),
      Response(302, <<<<B("location"), B("http://other.example/")>>,
                      <<B("set-cookie"), B("r=1")>>>>, FALSE) }

SwitchResponses ==
    { Response(101, <<<<B("upgrade"), B("websocket")>>,
                      <<B("connection"), B("Upgrade")>>>>, FALSE) }

\* a response of other.example that sets cookies of its own (the same
\* header lines as one of the plain responses)
OtherCookie ==
    Response(200, <<<<B("set-cookie"), B("sid=xyz")>>,
                    <<B("set-cookie"), B("t=1; Expires=T1")>>>>, FALSE)

\* what the upstream host of request req may answer: other.example serves
\* three fixed resources, example.com anything above
UpstreamResponses(req) ==
    IF Parse(req.url).Host = B("other.example")
    THEN {PlainText, FoundBare, OtherCookie}
    ELSE PlainResponses \cup RedirectResponses
            \cup (IF HGet(req.header, B("Upgrade")) # <<>> THEN SwitchResponses ELSE {})

CookieNames == {B("sid"), B("t")}

StoreOrigins == {B("https://example.com")}

notProxy == <<codecVars, headerVars, cookieVars, laterVars>>

InitProxy ==
    /\ ProxyOrigin = DefaultProxyOrigin
    /\ ProxyIdle
    /\ CodecIdle
    /\ HeadersIdle
    /\ CookieIdle
    /\ LaterIdle

\* handleProxy: FetchUpstreamWithCookies prepared the request, or failed
receiveFetch(f) ==
    IF f.ok
    THEN /\ hPc' = "fetching"
         /\ upFirst' = f.req
         /\ upReq' = f.req
         /\ hVia' = 1
         /\ UNCHANGED <<hResp, hErr>>
    ELSE /\ hPc' = "done"
         /\ hErr' = "parse"
         /\ hResp' = httpError(EmptyHeader, 502)
         /\ UNCHANGED <<upFirst, upReq, hVia>>

\* handleProxy once the target is decided
receiveTarget(r, t) ==
    IF ~t.ok
    THEN /\ hPc' = "done"
         /\ hResp' = httpError(EmptyHeader, t.status)
         /\ UNCHANGED <<hTarget, upFirst, upReq, hVia, hErr>>
    ELSE /\ hTarget' = t.url
         /\ receiveFetch(fetchInternal(t.url, r.method, r.header,
                                       CookieHeader(origins, ExtractOrigin(t.url), now)))

\* handleProxy from entry to the hand-over of the first upstream request
Receive(r) ==
    /\ hPc = "idle"
    /\ hReq' = r
    /\ receiveTarget(r, ProxyTarget(r.rawQuery))
    /\ UNCHANGED <<ProxyOrigin, origins, now, hFirst, hLast, notProxy>>

\* handleProxy from the return of the fetch to the end of the response
Finish(resp, bodyErr) ==
    /\ origins' = SetCookiesFromResponse(origins, ExtractOrigin(hTarget), resp.header)
    /\ IF resp.status = 101
       THEN /\ hPc' = "bridge"
            /\ hResp' = hijackResponse(resp)
       ELSE /\ hPc' = "done"
            /\ hResp' = writeResponse(hReq.method, hTarget, resp, ProxyOrigin, bodyErr)

\* httpClient.Do on response resp: follows says the response is a redirect
\* Do handles, next is its Location resolved against the request URL
clientDo(resp, bodyErr, follows, next) ==
    /\ hLast' = resp
    /\ hFirst' = IF hVia = 1 THEN resp ELSE hFirst
    /\ IF follows /\ next.ok /\ CheckRedirect(hVia)
       THEN /\ upReq' = redirectRequest(upFirst, upReq, next)
            /\ hVia' = hVia + 1
            /\ UNCHANGED <<hPc, hErr, hResp, origins>>
       ELSE IF follows
       THEN /\ hPc' = "done"
            /\ hErr' = IF next.ok THEN "redirects" ELSE "location"
            /\ hResp' = httpError(EmptyHeader, 502)
            /\ UNCHANGED <<upReq, hVia, origins>>
       ELSE /\ Finish(resp, bodyErr)
            /\ UNCHANGED <<upReq, hVia, hErr>>

\* the response of the upstream as the fetch sees it
received(u, loc) ==
    clientDo([status |-> u.status, header |-> u.header],
             u.bodyErr,
             /\ ~isWebSocketUpgrade(hReq.header)
             /\ IsRedirectStatus(u.status)
             /\ loc # <<>>,
             URLParse(Parse(upReq.url), loc))

\* the upstream answers upReq; httpClient.Do follows a redirect or returns,
\* streamTransport.RoundTrip (upgrade requests) always returns
UpstreamRespond(u) ==
    /\ hPc = "fetching"
    /\ Parse(upReq.url).Host # <<>>
    /\ u \in UpstreamResponses(upReq)
    /\ received(u, HGet(u.header, B("Location")))
    /\ UNCHANGED <<ProxyOrigin, now, hReq, hTarget, upFirst, notProxy>>

\* the transport fails (dial, TLS, reset): the fetch returns an error
UpstreamFail ==
    /\ hPc = "fetching"
    /\ hPc' = "done"
    /\ hErr' = "net"
    /\ hResp' = httpError(EmptyHeader, 502)
    /\ UNCHANGED <<ProxyOrigin, origins, now, hReq, hTarget, upFirst, upReq, hVia,
                   hFirst, hLast, notProxy>>

\* hijackWebSocket: one copy direction ends and the handler returns
BridgeClose ==
    /\ hPc = "bridge"
    /\ hPc' = "done"
    /\ UNCHANGED <<ProxyOrigin, origins, now, hReq, hTarget, upFirst, upReq, hVia,
                   hFirst, hLast, hErr, hResp, notProxy>>

\* the handler has returned; the next request may arrive
Return ==
    /\ hPc = "done"
    /\ hPc' = "idle"
    /\ hReq' = NoClientReq
    /\ hTarget' = <<>>
    /\ upFirst' = NoReq
    /\ upReq' = NoReq
    /\ hVia' = 0
    /\ hFirst' = NoResp
    /\ hLast' = NoResp
    /\ hErr' = "none"
    /\ hResp' = NoOut
    /\ UNCHANGED <<ProxyOrigin, origins, now, notProxy>>

handlerVars == <<hPc, hReq, hTarget, upFirst, upReq, hVia, hFirst, hLast, hErr, hResp>>

\* DeleteCookie and ClearAll are called from outside the handler.  Once the
\* handler has absorbed the response it no longer touches the store, so a call
\* at that point is the same call after its return.
StoreDeleteCookie(o, name) ==
    /\ hPc \in {"idle", "fetching"}
    /\ origins' = DeleteCookie(origins, o, name)
    /\ origins' # origins
    /\ UNCHANGED <<ProxyOrigin, now, handlerVars, notProxy>>

StoreClearAll ==
    /\ hPc \in {"idle", "fetching"}
    /\ origins # EmptyOrigins
    /\ origins' = ClearAll(origins)
    /\ UNCHANGED <<ProxyOrigin, now, handlerVars, notProxy>>

\* time passes; only CookieHeader, at the start of a request, reads the clock
Tick ==
    /\ hPc = "idle"
    /\ now < MaxTime
    /\ now' = now + 1
    /\ UNCHANGED <<ProxyOrigin, origins, handlerVars, notProxy>>

NextProxy ==
    \/ \E r \in ClientRequests : Receive(r)
    \/ \E u \in PlainResponses \cup RedirectResponses \cup SwitchResponses :
          UpstreamRespond(u)
    \/ UpstreamFail
    \/ BridgeClose
    \/ Return
    \/ \E o \in StoreOrigins, name \in CookieNames : StoreDeleteCookie(o, name)
    \/ StoreClearAll
    \/ Tick

SpecProxy == InitProxy /\ [][NextProxy]_vars

-----------------------------------------------------------------------------
(* Header runs: CopyResponseHeadersWithContext applied to the header set   *)
(* the transport parses from a list of upstream header lines.              *)

MaxLines == 2

\* header names as an upstream may send them
WireNames ==
    { B("content-security-policy"), B("Content-Security-Policy-Report-Only"),
      B("x-content-security-policy"), B("X-Frame-Options"),
      B("cross-origin-opener-policy"), B("Cross-Origin-Embedder-Policy"),
      B("cross-origin-resource-policy"), B("Strict-Transport-Security"),
      B("referrer-policy"), B("PERMISSIONS-POLICY"),
      B("X-XSS-Protection"), B("x-xss-protection"),
      B("Connection"), B("keep-alive"), B("TE"), B("upgrade"),
      B("content-type"), B("X-Custom") }

WireLines == {<<n, B("v")>> : n \in WireNames}

HeaderTarget == B("https://example.com/page")

notHeaders == <<ProxyOrigin, codecVars, proxyVars, cookieVars, laterVars>>

InitHeaders ==
    /\ fLines \in UNION {[1..n -> WireLines] : n \in 0..MaxLines}
    /\ fDst = EmptyHeader
    /\ fStep = "start"
    /\ ProxyOrigin = DefaultProxyOrigin
    /\ ProxyIdle
    /\ CodecIdle
    /\ CookieIdle
    /\ LaterIdle

CopyHeaders ==
    /\ fStep = "start"
    /\ fDst' = CopyResponseHeadersWithContext(EmptyHeader, ReadHeader(fLines),
                                              HeaderTarget, ProxyOrigin)
    /\ fStep' = "copied"
    /\ UNCHANGED <<fLines, notHeaders>>

NextHeaders == CopyHeaders

SpecHeaders == InitHeaders /\ [][NextHeaders]_vars

-----------------------------------------------------------------------------
(* Cookie runs: one upstream Set-Cookie line through the header copy.      *)

MaxAttrs == 2

\* leading name=value pairs
CookiePairs == {B("sid=abc"), B("Domain=abc"), B("samesite=1"), B("Secure=1")}

CookieAttrs ==
    { B("Domain=example.com"), B("domain=.a.b"), B("Secure"), B("secure"),
      B("SameSite=Strict"), B("samesite=Lax"), B("Path=/"), B("HttpOnly") }

AttrLists == UNION {[1..n -> CookieAttrs] : n \in 0..MaxAttrs}

SetCookieValues == {Join(<<p>> \o a, B("; ")) : p \in CookiePairs, a \in AttrLists}

notCookie == <<codecVars, proxyVars, headerVars, laterVars>>

InitCookie ==
    /\ kIn \in SetCookieValues
    /\ kOut = <<>>
    /\ kStep = "start"
    /\ ProxyOrigin \in {B("http://localhost:8080"), B("https://localhost:8080")}
    /\ ProxyIdle
    /\ CodecIdle
    /\ HeadersIdle
    /\ LaterIdle

ForwardCookie ==
    /\ kStep = "start"
    /\ LET dst == CopyResponseHeadersWithContext(
                      EmptyHeader, ReadHeader(<<<<B("set-cookie"), kIn>>>>),
                      HeaderTarget, ProxyOrigin)
       IN kOut' = IF B("Set-Cookie") \in DOMAIN dst THEN dst[B("Set-Cookie")] ELSE <<>>
    /\ kStep' = "forwarded"
    /\ UNCHANGED <<ProxyOrigin, kIn, notCookie>>

NextCookie == ForwardCookie

SpecCookie == InitCookie /\ [][NextCookie]_vars

-----------------------------------------------------------------------------
(* Properties of the dispatcher, the header policy and the cookie store    *)

PageURL == B("https://example.com/page")

\* the url query parameter of r is missing, or DecodeProxyURL fails on it
BadUrlParam(r) ==
    LET raw == QueryGet(r.rawQuery, B("url")) IN
    raw = <<>> \/ ~DecodeProxyURL(raw).ok

\* C3: handleProxy answers 400 whenever the url query parameter is missing or
\* DecodeProxyURL fails on it; then no upstream request is issued and the
\* session store is left unchanged.
C3_BadRequest ==
    [][(hPc = "idle" /\ hPc' # "idle" /\ BadUrlParam(hReq'))
          => /\ hPc' = "done"
             /\ hResp'.status = 400
             /\ hVia' = 0
             /\ upReq' = NoReq
             /\ origins' = origins]_vars

\* a request whose url parameter does not decode was answered 400 while the
\* session store held cookies
C3_Witness ==
    /\ hPc = "done"
    /\ hReq.rawQuery = B("url=%zz")
    /\ hResp.status = 400
    /\ origins # EmptyOrigins

SecurityHeaderNames ==
    {B("Content-Security-Policy"), B("Content-Security-Policy-Report-Only"),
     B("X-Content-Security-Policy"), B("X-Frame-Options"),
     B("Cross-Origin-Opener-Policy"), B("Cross-Origin-Embedder-Policy"),
     B("Cross-Origin-Resource-Policy"), B("Strict-Transport-Security"),
     B("Referrer-Policy"), B("Permissions-Policy"), B("X-XSS-Protection")}

\* header set h has a key that is one of names, letter case aside
Carries(h, names) == \E k \in DOMAIN h, n \in names : EqualFold(k, n)

\* C4: after CopyResponseHeadersWithContext the headers sent to the client
\* contain none of the eleven embedding and security headers, whatever the
\* letter case of the name after canonicalisation.
C4_SecurityStripped ==
    fStep = "copied" => ~Carries(fDst, SecurityHeaderNames)

HopByHopNames ==
    {B("Connection"), B("Keep-Alive"), B("Proxy-Authenticate"),
     B("Proxy-Authorization"), B("Te"), B("Trailer"), B("Transfer-Encoding"),
     B("Upgrade")}

\* C5 as stated: no response written for a /proxy request carries a
\* hop-by-hop header.
C5_NoHopByHop ==
    hResp.status # 0 => ~Carries(hResp.header, HopByHopNames)

\* C5: no response written for a /proxy request carries a hop-by-hop header,
\* except the 101 Switching Protocols answer hijackWebSocket relays as the
\* upstream sent it.
C5_NoHopByHopExceptSwitch ==
    hResp.status \notin {0, 101} => ~Carries(hResp.header, HopByHopNames)

\* an upstream answer with hop-by-hop headers was passed on with status 200
C5_Witness ==
    /\ hPc = "done"
    /\ hResp.status = 200
    /\ Carries(hLast.header, HopByHopNames)
    /\ DOMAIN hResp.header # {}

\* C6: when the upstream answers the request for https://example.com/page with
\* 302 and Location: /next, the response to the client has status 302 and
\* Location: /proxy?url=https%3A%2F%2Fexample.com%2Fnext.
C6_RedirectRelayed ==
    (/\ hPc = "done"
     /\ hErr = "none"
     /\ hResp.status # 502
     /\ hTarget = PageURL
     /\ hFirst.status = 302
     /\ HGet(hFirst.header, B("Location")) = B("/next"))
        => /\ hResp.status = 302
           /\ HGet(hResp.header, B("Location"))
                 = B("/proxy?url=https%3A%2F%2Fexample.com%2Fnext")

\* response resp to a request of httpClient.Do asks for a redirect hop
AsksRedirect(resp) ==
    /\ ~isWebSocketUpgrade(hReq.header)
    /\ resp.status \in {301, 302, 303, 307, 308}
    /\ HGet(resp.header, B("Location")) # <<>>

\* C7 as stated: the fetch fails for too many redirects only after ten hops
\* have been followed, when an eleventh would be needed.
C7_TenHops ==
    hErr = "redirects" => hVia - 1 = 10

\* C7: the fetcher sends at most 10 upstream requests for one proxied request
\* (9 redirect hops followed); a response it returns asks for no further hop;
\* when a tenth hop would be needed the fetch fails and the dispatcher
\* answers 502.
C7_RedirectLimit ==
    [][hPc = "fetching"
          => /\ (hVia' = hVia + 1) => (hVia < 10 /\ AsksRedirect(hLast'))
             /\ (hErr' = "redirects")
                   => (hVia = 10 /\ AsksRedirect(hLast') /\ hPc' = "done"
                       /\ hResp'.status = 502)
             /\ (hPc' \in {"done", "bridge"} /\ hErr' = "none")
                   => ~AsksRedirect(hLast')]_vars

\* the tenth upstream response asked for another hop and the client got 502
C7_Witness ==
    /\ hPc = "done"
    /\ hErr = "redirects"
    /\ hVia = 10
    /\ hResp.status = 502

\* the name of a cookie segment: what precedes '=', lower-cased
SegmentName(seg) == ToLower(Cut(seg, 61)[1])

\* the Set-Cookie value C8 describes for upstream value v
ExpectedSetCookie(v, proxyOrigin) ==
    LET segs == Split(v, 59)
        parts == [i \in 1..Len(segs) |-> TrimSpace(segs[i])]
        plain == HasPrefix(proxyOrigin, B("http://"))
        Keep(i) == \/ i = 1
                   \/ /\ SegmentName(parts[i]) \notin {B("domain"), B("samesite")}
                      /\ ~(plain /\ SegmentName(parts[i]) = B("secure"))
        kept == {i \in 1..Len(parts) : Keep(i)}
        nth(j) == CHOOSE i \in kept : Cardinality({x \in kept : x < i}) = j - 1
    IN Join([j \in 1..Cardinality(kept) |-> parts[nth(j)]], B("; "))
          \o B("; SameSite=None")
          \o (IF HasPrefix(proxyOrigin, B("https://")) THEN B("; Secure") ELSE <<>>)

\* C8: every Set-Cookie value forwarded is the upstream value with every
\* Domain and SameSite attribute removed, Secure removed iff the proxy origin
\* is plain http, then SameSite=None appended, and Secure iff it is https.
C8_SetCookieRewritten ==
    kStep = "forwarded" => kOut = <<ExpectedSetCookie(kIn, ProxyOrigin)>>

StoredCookies(store, o) == IF o \in DOMAIN store THEN store[o].Cookies ELSE <<>>

\* the '; '-join of name=value over the cookies of cs not expired at t
LiveCookieHeader(cs, t) ==
    LET Live(c) == c.Expires = 0 \/ ~(c.Expires < t)
        live == SelectSeq(cs, Live)
    IN Join([i \in 1..Len(live) |-> live[i].Name \o B("=") \o live[i].Value], B("; "))

\* cookie list after is before with one entry taken out
OneRemoved(before, after) ==
    \E i \in 1..Len(before) :
        after = SubSeq(before, 1, i - 1) \o SubSeq(before, i + 1, Len(before))

InSeq(x, seq) == \E i \in 1..Len(seq) : seq[i] = x

C10_WebSocketAccepted ==
    (/\ hPc # "idle"
     /\ hReq.rawQuery = B("url=wss%3A%2F%2Fws.example.com%2Fs")
     /\ isWebSocketUpgrade(hReq.header))
        => /\ hResp.status # 400
           /\ upFirst.url = B("https://ws.example.com/s")
           /\ HGet(upFirst.header, B("Connection")) = B("Upgrade")
           /\ HGet(upFirst.header, B("Upgrade")) = B("websocket")

-----------------------------------------------------------------------------
\* Frames of the later runs: what each leaves unchanged, and the rest idle
earlierVars == <<ProxyOrigin, codecVars, proxyVars, headerVars, cookieVars>>

EarlierIdle ==
    /\ ProxyOrigin = DefaultProxyOrigin
    /\ CodecIdle
    /\ ProxyIdle
    /\ HeadersIdle
    /\ CookieIdle

notStatic == <<earlierVars, fetchVars, resolveVars, pageVars, storageVars, rewriteVars, cancelVars, storeVars, navVars, bridgeVars, jarVars, heapVars>>

RestStaticIdle ==
    /\ EarlierIdle
    /\ FetchIdle
    /\ ResolveIdle
    /\ PageIdle
    /\ StorageIdle
    /\ RewriteIdle
    /\ CancelIdle
    /\ StoreIdle
    /\ NavIdle
    /\ BridgeIdle
    /\ JarIdle
    /\ HeapIdle

notFetch == <<earlierVars, staticVars, resolveVars, pageVars, storageVars, rewriteVars, cancelVars, storeVars, navVars, bridgeVars, jarVars, heapVars>>

RestFetchIdle ==
    /\ EarlierIdle
    /\ StaticIdle
    /\ ResolveIdle
    /\ PageIdle
    /\ StorageIdle
    /\ RewriteIdle
    /\ CancelIdle
    /\ StoreIdle
    /\ NavIdle
    /\ BridgeIdle
    /\ JarIdle
    /\ HeapIdle

notResolve == <<earlierVars, staticVars, fetchVars, pageVars, storageVars, rewriteVars, cancelVars, storeVars, navVars, bridgeVars, jarVars, heapVars>>

RestResolveIdle ==
    /\ EarlierIdle
    /\ StaticIdle
    /\ FetchIdle
    /\ PageIdle
    /\ StorageIdle
    /\ RewriteIdle
    /\ CancelIdle
    /\ StoreIdle
    /\ NavIdle
    /\ BridgeIdle
    /\ JarIdle
    /\ HeapIdle

notPage == <<earlierVars, staticVars, fetchVars, resolveVars, storageVars, rewriteVars, cancelVars, storeVars, navVars, bridgeVars, jarVars, heapVars>>

RestPageIdle ==
    /\ EarlierIdle
    /\ StaticIdle
    /\ FetchIdle
    /\ ResolveIdle
    /\ StorageIdle
    /\ RewriteIdle
    /\ CancelIdle
    /\ StoreIdle
    /\ NavIdle
    /\ BridgeIdle
    /\ JarIdle
    /\ HeapIdle

notStorage == <<earlierVars, staticVars, fetchVars, resolveVars, pageVars, rewriteVars, cancelVars, storeVars, navVars, bridgeVars, jarVars, heapVars>>

RestStorageIdle ==
    /\ EarlierIdle
    /\ StaticIdle
    /\ FetchIdle
    /\ ResolveIdle
    /\ PageIdle
    /\ RewriteIdle
    /\ CancelIdle
    /\ StoreIdle
    /\ NavIdle
    /\ BridgeIdle
    /\ JarIdle
    /\ HeapIdle

notRewrite == <<earlierVars, staticVars, fetchVars, resolveVars, pageVars, storageVars, cancelVars, storeVars, navVars, bridgeVars, jarVars, heapVars>>

RestRewriteIdle ==
    /\ EarlierIdle
    /\ StaticIdle
    /\ FetchIdle
    /\ ResolveIdle
    /\ PageIdle
    /\ StorageIdle
    /\ CancelIdle
    /\ StoreIdle
    /\ NavIdle
    /\ BridgeIdle
    /\ JarIdle
    /\ HeapIdle

notCancel == <<earlierVars, staticVars, fetchVars, resolveVars, pageVars, storageVars, rewriteVars, storeVars, navVars, bridgeVars, jarVars, heapVars>>

RestCancelIdle ==
    /\ EarlierIdle
    /\ StaticIdle
    /\ FetchIdle
    /\ ResolveIdle
    /\ PageIdle
    /\ StorageIdle
    /\ RewriteIdle
    /\ StoreIdle
    /\ NavIdle
    /\ BridgeIdle
    /\ JarIdle
    /\ HeapIdle

notStore == <<earlierVars, staticVars, fetchVars, resolveVars, pageVars, storageVars, rewriteVars, cancelVars, navVars, bridgeVars, jarVars, heapVars>>

RestStoreIdle ==
    /\ EarlierIdle
    /\ StaticIdle
    /\ FetchIdle
    /\ ResolveIdle
    /\ PageIdle
    /\ StorageIdle
    /\ RewriteIdle
    /\ CancelIdle
    /\ NavIdle
    /\ BridgeIdle
    /\ JarIdle
    /\ HeapIdle

notNav == <<earlierVars, staticVars, fetchVars, resolveVars, pageVars, storageVars, rewriteVars, cancelVars, storeVars, bridgeVars, jarVars, heapVars>>

RestNavIdle ==
    /\ EarlierIdle
    /\ StaticIdle
    /\ FetchIdle
    /\ ResolveIdle
    /\ PageIdle
    /\ StorageIdle
    /\ RewriteIdle
    /\ CancelIdle
    /\ StoreIdle
    /\ BridgeIdle
    /\ JarIdle
    /\ HeapIdle

notBridge == <<earlierVars, staticVars, fetchVars, resolveVars, pageVars, storageVars, rewriteVars, cancelVars, storeVars, navVars, jarVars, heapVars>>

RestBridgeIdle ==
    /\ EarlierIdle
    /\ StaticIdle
    /\ FetchIdle
    /\ ResolveIdle
    /\ PageIdle
    /\ StorageIdle
    /\ RewriteIdle
    /\ CancelIdle
    /\ StoreIdle
    /\ NavIdle
    /\ JarIdle
    /\ HeapIdle

notJar == <<earlierVars, staticVars, fetchVars, resolveVars, pageVars, storageVars, rewriteVars, cancelVars, storeVars, navVars, bridgeVars, heapVars>>

RestJarIdle ==
    /\ EarlierIdle
    /\ StaticIdle
    /\ FetchIdle
    /\ ResolveIdle
    /\ PageIdle
    /\ StorageIdle
    /\ RewriteIdle
    /\ CancelIdle
    /\ StoreIdle
    /\ NavIdle
    /\ BridgeIdle
    /\ HeapIdle

notHeap == <<earlierVars, staticVars, fetchVars, resolveVars, pageVars, storageVars, rewriteVars, cancelVars, storeVars, navVars, bridgeVars, jarVars>>

RestHeapIdle ==
    /\ EarlierIdle
    /\ StaticIdle
    /\ FetchIdle
    /\ ResolveIdle
    /\ PageIdle
    /\ StorageIdle
    /\ RewriteIdle
    /\ CancelIdle
    /\ StoreIdle
    /\ NavIdle
    /\ BridgeIdle
    /\ JarIdle

-----------------------------------------------------------------------------

-----------------------------------------------------------------------------
(* Routing and static files (package transport, NewMux and handleStatic)   *)

\* path.Clean and filepath.Clean on the elements of a slash-separated path:
\* empty and "." elements are dropped, ".." removes the element before it,
\* is dropped at the root and is kept at the start of a relative path
RECURSIVE cleanElems(_, _, _, _)
cleanElems(segs, i, out, rooted) ==
    IF i > Len(segs) THEN out
    ELSE IF segs[i] = <<>> \/ segs[i] = B(".")
    THEN cleanElems(segs, i + 1, out, rooted)
    ELSE IF segs[i] # B("..")
    THEN cleanElems(segs, i + 1, Append(out, segs[i]), rooted)
    ELSE IF Len(out) > 0 /\ out[Len(out)] # B("..")
    THEN cleanElems(segs, i + 1, SubSeq(out, 1, Len(out) - 1), rooted)
    ELSE IF rooted THEN cleanElems(segs, i + 1, out, rooted)
    ELSE cleanElems(segs, i + 1, Append(out, B("..")), rooted)

cleanJoined(rooted, out) ==
    IF rooted THEN B("/") \o out ELSE IF out = <<>> THEN B(".") ELSE out

cleanRooted(p, rooted) ==
    cleanJoined(rooted, Join(cleanElems(Split(p, 47), 1, <<>>, rooted), B("/")))

\* filepath.Clean (Unix), the same function as path.Clean
Clean(p) == IF p = <<>> THEN B(".") ELSE cleanRooted(p, p[1] = 47)

\* filepath.Join of two elements: empty elements are ignored, the rest is
\* joined with a slash and cleaned
filepathJoin(a, b) ==
    IF a = <<>> /\ b = <<>> THEN <<>>
    ELSE IF a = <<>> THEN Clean(b)
    ELSE IF b = <<>> THEN Clean(a)
    ELSE Clean(a \o B("/") \o b)

\* net/http cleanPath: the canonical form of a request path, the trailing
\* slash kept
cleanPathOf(p, np) ==
    IF p[Len(p)] = 47 /\ np # B("/") THEN np \o B("/") ELSE np

cleanPathRooted(p) == cleanPathOf(p, Clean(p))

cleanPath(p) ==
    IF p = <<>> THEN B("/")
    ELSE IF p[1] # 47 THEN cleanPathRooted(B("/") \o p)
    ELSE cleanPathRooted(p)

\* the patterns NewMux registers, in order
muxPatterns ==
    << [method |-> "GET", path |-> B("/proxy"), handler |-> "handleProxy"],
       [method |-> "POST", path |-> B("/rewrite/html"), handler |-> "handleRewriteHTML"],
       [method |-> "POST", path |-> B("/rewrite/css"), handler |-> "handleRewriteCSS"],
       [method |-> "POST", path |-> B("/rewrite/js"), handler |-> "handleRewriteJS"],
       [method |-> "", path |-> B("/"), handler |-> "handleStatic"] >>

\* a pattern's method matches: none matches every method, GET also HEAD
methodMatches(pat, method) ==
    \/ pat.method = ""
    \/ pat.method = method
    \/ (pat.method = "GET" /\ method = "HEAD")

\* the segments the mux compares, each unescaped on its own
pathSegments(path) ==
    [i \in 1..Len(Split(Tail(path), 47)) |->
        IF unescapeValid(Split(Tail(path), 47)[i], 1, "encodePathSegment")
        THEN unescapeFrom(Split(Tail(path), 47)[i], 1, "encodePathSegment")
        ELSE Split(Tail(path), 47)[i]]

\* a pattern's path matches: one that ends in a slash matches every path
\* below it, any other only itself
pathMatches(pat, segs) ==
    IF pat.path[Len(pat.path)] = 47
    THEN HasPrefix(segs, SubSeq(pathSegments(pat.path), 1,
                                Len(pathSegments(pat.path)) - 1))
    ELSE segs = pathSegments(pat.path)

matchingPatterns(method, segs) ==
    {i \in DOMAIN muxPatterns :
        methodMatches(muxPatterns[i], method) /\ pathMatches(muxPatterns[i], segs)}

\* ServeMux: the most specific matching pattern, a pattern for the whole
\* path before the subtree pattern "/"
muxMatch(method, path) ==
    muxPatterns[Min(matchingPatterns(method, pathSegments(path)))].handler

NoStaticOut == [handler |-> "", status |-> 0, read |-> <<>>, served |-> <<>>]

\* ServeMux.findHandler for a request other than CONNECT: a path that is
\* not in canonical form is redirected to it, any other goes to the pattern
\* it matches
muxRoute(method, escaped, path) ==
    IF path # escaped
    THEN [NoStaticOut EXCEPT !.handler = "redirect", !.status = 301]
    ELSE [NoStaticOut EXCEPT !.handler = muxMatch(method, path)]

findHandler(method, escaped) == muxRoute(method, escaped, cleanPath(escaped))

\* the package variable AssetsDir; nothing assigns it
AssetsDir == <<>>

\* handleStatic, the normalized path: / is index.html, the leading slash is
\* cut
staticClean(p) ==
    Clean(TrimPrefix(IF p = B("/") THEN B("/index.html") ELSE p, B("/")))

staticRead(fullPath, files) ==
    IF fullPath \in files
    THEN [NoStaticOut EXCEPT !.handler = "handleStatic", !.status = 200,
                             !.read = <<fullPath>>, !.served = fullPath]
    ELSE [NoStaticOut EXCEPT !.handler = "handleStatic", !.status = 404,
                             !.read = <<fullPath>>]

staticServe(clean, files) ==
    IF Contains(clean, B(".."))
    THEN [NoStaticOut EXCEPT !.handler = "handleStatic", !.status = 403]
    ELSE staticRead(filepathJoin(AssetsDir, clean), files)

\* handleStatic for the decoded path r.URL.Path, files the names that
\* os.ReadFile can read
handleStatic(p, files) == staticServe(staticClean(p), files)

\* the decoded path the handlers see in r.URL.Path
urlPath(escaped) == unescapeFrom(escaped, 1, "encodePath")

serveRouted(route, escaped, files) ==
    IF route.handler = "handleStatic" THEN handleStatic(urlPath(escaped), files)
    ELSE route

\* the server for one request line: the mux, then handleStatic when chosen
serveHTTP(method, escaped, files) ==
    serveRouted(findHandler(method, escaped), escaped, files)

-----------------------------------------------------------------------------
(* Static runs: one request through the mux and, when the mux chooses it,  *)
(* through handleStatic.                                                    *)

StaticMethods == {"GET", "HEAD", "POST", "PUT"}

\* request paths as they stand on the request line
StaticPaths ==
    {B("/"), B("/index.html"), B("/app.js"), B("/missing.css"), B("/proxy"),
     B("/proxy/"), B("/rewrite/html"), B("/../etc/passwd"), B("//app.js"),
     B("/%2e%2e/etc/passwd"), B("/a/%2E%2E/app.js"), B("/a..b"),
     B("/%2Fetc/passwd")}

\* names of files that may exist: in the directory the server runs in, with
\* which an empty AssetsDir is joined, and elsewhere
FileNames ==
    {B("index.html"), B("app.js"), B("proxy"), B("a..b"), B("/etc/passwd")}

InitStatic ==
    /\ sReq \in [method : StaticMethods, path : StaticPaths]
    /\ sFiles \in SUBSET FileNames
    /\ sOut = NoStaticOut
    /\ sStep = "start"
    /\ RestStaticIdle

Serve ==
    /\ sStep = "start"
    /\ sOut' = serveHTTP(sReq.method, sReq.path, sFiles)
    /\ sStep' = "served"
    /\ UNCHANGED <<sReq, sFiles, notStatic>>

NextStatic == Serve

SpecStatic == InitStatic /\ [][NextStatic]_vars

\* C11: a request to /proxy with a method other than GET is handled by the
\* proxy dispatcher, not by the static file handler.
C11_OtherMethodsProxied ==
    (sStep = "served" /\ sReq.path = B("/proxy") /\ sReq.method # "GET")
        => sOut.handler = "handleProxy"

\* a name inside the assets directory: below AssetsDir, which when empty is
\* the directory the server runs in
InAssets(name) ==
    IF AssetsDir = <<>>
    THEN name[1] # 47 /\ ~HasPrefix(name, B(".."))
    ELSE HasPrefix(name, Clean(AssetsDir) \o B("/"))

\* C14: the static handler never serves a file outside the assets
\* directory: a normalized path that contains ".." is answered 403 and no
\* file is read, a path with no readable file is answered 404, and /
\* serves index.html.
C14_StaticConfined ==
    (sStep = "served" /\ sOut.handler = "handleStatic")
        => /\ sOut.served # <<>> => InAssets(sOut.served)
           /\ Contains(staticClean(urlPath(sReq.path)), B(".."))
                 => (sOut.status = 403 /\ sOut.read = <<>>)
           /\ (sOut.read # <<>> /\ sOut.read[1] \notin sFiles) => sOut.status = 404
           /\ (sReq.path = B("/") /\ B("index.html") \in sFiles)
                 => (sOut.status = 200 /\ sOut.served = B("index.html"))

-----------------------------------------------------------------------------
(* Fetch runs: fetchInternal builds the upstream request for one target,   *)
(* one client header set and one cookie string of the session store.       *)

MaxReqLines == 2

\* header lines a client may send, as they stand on the wire
ClientLines ==
    { <<B("accept"), B("text/html")>>,
      <<B("Accept-Encoding"), B("gzip")>>,
      <<B("origin"), B("http://localhost:8080")>>,
      <<B("origin"), <<>>>>,
      <<B("referer"),
        B("http://localhost:8080/proxy?url=https%3A%2F%2Fexample.com%2Fprev")>>,
      <<B("referer"), B("http://localhost:8080/")>>,
      <<B("cookie"), B("own=1")>>,
      <<B("x-forwarded-for"), B("10.0.0.1")>>,
      <<B("x-csrf-token"), B("t")>>,
      <<B("dnt"), B("1")>>,
      <<B("connection"), B("keep-alive")>>,
      <<B("accept"), <<>>>> }

FetchTargets ==
    {B("https://example.com/page"), B("http://a.b:8080/x?q=1"),
     B("wss://ws.example.com/s")}

clientHeaders(lines, upgrade) ==
    ReadHeader(IF upgrade THEN lines \o UpgradeLines ELSE lines)

InitFetch ==
    /\ qTarget \in FetchTargets
    /\ qMethod \in {"GET", "POST"}
    /\ \E lines \in UNION {[1..n -> ClientLines] : n \in 0..MaxReqLines},
          upgrade \in BOOLEAN :
          qHeaders = clientHeaders(lines, upgrade)
    /\ qCookie \in {<<>>, B("sid=abc")}
    /\ qReq = [ok |-> FALSE, req |-> NoReq]
    /\ qStep = "start"
    /\ RestFetchIdle

BuildRequest ==
    /\ qStep = "start"
    /\ qReq' = fetchInternal(qTarget, qMethod, qHeaders, qCookie)
    /\ qStep' = "built"
    /\ UNCHANGED <<qTarget, qMethod, qHeaders, qCookie, notFetch>>

NextFetch == BuildRequest

SpecFetch == InitFetch /\ [][NextFetch]_vars

\* the 19 names of the request whitelist, in canonical header form
WhitelistNames ==
    {CanonicalMIMEHeaderKey(B(n)) :
        n \in {"Accept", "Accept-Charset", "Accept-Language", "Accept-Encoding",
               "Content-Type", "Content-Length", "User-Agent", "Referer", "Origin",
               "Authorization", "X-Requested-With", "X-CSRF-Token",
               "If-Modified-Since", "If-None-Match", "If-Match",
               "If-Unmodified-Since", "Cache-Control", "Range", "DNT"}}

\* the names the request carries on a WebSocket upgrade
UpgradeNames ==
    {B("Connection"), B("Upgrade"), B("Sec-Websocket-Key"),
     B("Sec-Websocket-Version"), B("Sec-Websocket-Extensions"),
     B("Sec-Websocket-Protocol")}

\* the authority of an absolute URL: the text between :// and the next /
AuthorityOf(u) ==
    Cut(SubSeq(u, IndexByte(u, 58) + 3, Len(u)), 47)[1]

\* the origin upstream requests for a target go to: ws and wss targets are
\* fetched with http and https
UpstreamOriginOf(u) ==
    (IF HasPrefix(u, B("wss:")) \/ HasPrefix(u, B("https:"))
     THEN B("https://") ELSE B("http://")) \o AuthorityOf(u)

\* the client sent a non-empty header of this name
ClientSent(name) == HGet(qHeaders, name) # <<>>

\* C12: the upstream request carries, of the client's headers, only the
\* whitelisted ones that are present and non-empty (the client's Cookie and
\* every other header is dropped; an upgrade request also carries the
\* WebSocket upgrade headers); Accept-Encoding is identity, Host is the
\* upstream host, and Origin is the upstream origin iff the client sent one.
C12_RequestHeaders ==
    (qStep = "built" /\ qReq.ok)
        => /\ \A k \in DOMAIN qReq.req.header :
                \/ k \in WhitelistNames /\ ClientSent(k)
                \/ k \in {B("Accept-Encoding"), B("Host")}
                \/ k = B("Cookie") /\ qReq.req.header[k] = <<qCookie>> /\ qCookie # <<>>
                \/ k \in UpgradeNames /\ isWebSocketUpgrade(qHeaders)
           /\ \A k \in WhitelistNames : ClientSent(k) => k \in DOMAIN qReq.req.header
           /\ \A k \in WhitelistNames \ {B("Accept-Encoding"), B("Origin"), B("Referer")} :
                ClientSent(k) => qReq.req.header[k] = <<HGet(qHeaders, k)>>
           /\ qReq.req.header[B("Accept-Encoding")] = <<B("identity")>>
           /\ qReq.req.header[B("Host")] = <<AuthorityOf(qTarget)>>
           /\ IF ClientSent(B("Origin"))
              THEN qReq.req.header[B("Origin")] = <<UpstreamOriginOf(qTarget)>>
              ELSE B("Origin") \notin DOMAIN qReq.req.header

\* a request with a client Cookie, a forwarded-for header, an Origin and a
\* stored cookie has been built: only Accept-Encoding, Host, Origin and the
\* stored cookie go upstream
C12_Witness ==
    /\ qStep = "built"
    /\ qReq.ok
    /\ HGet(qHeaders, B("Cookie")) = B("own=1")
    /\ HGet(qHeaders, B("Origin")) = B("http://localhost:8080")
    /\ qCookie = B("sid=abc")
    /\ DOMAIN qReq.req.header = {B("Accept-Encoding"), B("Host"), B("Origin"), B("Cookie")}

\* the upstream URL a Referer in proxy form stands for: [ok, url]
RefererTarget(ref) ==
    IF Contains(ref, B("/proxy?url="))
    THEN DecodeProxyURL(SubSeq(ref, Min({i \in 1..Len(ref) :
                                 HasPrefix(SubSeq(ref, i, Len(ref)), B("/proxy?url="))}) + 11,
                               Len(ref)))
    ELSE [ok |-> FALSE, url |-> <<>>]

\* C13: a Referer the client supplies in proxy form goes upstream as the
\* decoded upstream URL; one that cannot be decoded goes upstream as the
\* target URL; when the client supplies none, none is sent.
C13_RefererDecoded ==
    (qStep = "built" /\ qReq.ok)
        => IF ~ClientSent(B("Referer"))
           THEN B("Referer") \notin DOMAIN qReq.req.header
           ELSE IF RefererTarget(HGet(qHeaders, B("Referer"))).ok
           THEN qReq.req.header[B("Referer")]
                    = <<RefererTarget(HGet(qHeaders, B("Referer"))).url>>
           ELSE qReq.req.header[B("Referer")] = <<qTarget>>

-----------------------------------------------------------------------------
(* JavaScript strings and URLs as the runtime (assets/app.js) and the dev  *)
(* server (dev-server.js) use them.  Strings are the UTF-8 bytes of the    *)
(* text.  The URL class is modelled for URLs without userinfo, without     *)
(* IPv6 or non-ASCII hosts and without tab or newline characters.          *)

\* String.prototype.trim, for ASCII white space
jsTrim(s) == TrimSpace(s)

\* String.prototype.indexOf, 1-based; 0 when absent
IndexOf(s, p) ==
    IF Contains(s, p)
    THEN Min({i \in 1..(Len(s) - Len(p) + 1) : SubSeq(s, i, i + Len(p) - 1) = p})
    ELSE 0

\* the characters encodeURIComponent leaves as they are
uriUnreserved ==
    {c \in 0..255 : IsAlnum(c) \/ c \in {45, 95, 46, 33, 126, 42, 39, 40, 41}}

\* %XX for each byte outside plain
RECURSIVE pctEncode(_, _)
pctEncode(s, plain) ==
    IF s = <<>> THEN <<>>
    ELSE (IF s[1] \in plain THEN <<s[1]>>
          ELSE <<37, upperhex(s[1] \div 16), upperhex(s[1] % 16)>>)
         \o pctEncode(Tail(s), plain)

encodeURIComponent(s) == pctEncode(s, uriUnreserved)

\* the URL standard's percent-encode sets, as the bytes left as they are
fragmentPlain == (32..126) \ {32, 34, 60, 62, 96}
queryPlain == (32..126) \ {32, 34, 35, 60, 62, 39}
pathPlain == (32..126) \ {32, 34, 35, 60, 62, 63, 94, 96, 123, 125}

\* special schemes and their default ports
defaultPort(scheme) ==
    IF scheme \in {B("http"), B("ws")} THEN 80
    ELSE IF scheme \in {B("https"), B("wss")} THEN 443
    ELSE IF scheme = B("ftp") THEN 21
    ELSE 0

isSpecial(scheme) == defaultPort(scheme) # 0

\* a failed parse (the constructor throws); protocol ends in ":", query and
\* fragment are <<>> when null and <<text>> otherwise
NoURL ==
    [ok |-> FALSE, protocol |-> <<>>, host |-> <<>>, path |-> <<>>,
     opaque |-> <<>>, query |-> <<>>, fragment |-> <<>>]

\* the scheme at the start of s: [ok, scheme (lower case), rest]
jsScheme(s) ==
    LET i == IndexByte(s, 58) IN
    IF /\ i > 1
       /\ IsAlpha(s[1])
       /\ \A k \in 1..(i - 1) : IsAlnum(s[k]) \/ s[k] \in {43, 45, 46}
    THEN [ok |-> TRUE, scheme |-> ToLower(SubSeq(s, 1, i - 1)),
          rest |-> SubSeq(s, i + 1, Len(s))]
    ELSE [ok |-> FALSE, scheme |-> <<>>, rest |-> s]

\* decimal digits to a number, and back
RECURSIVE atoi(_)
atoi(d) == IF d = <<>> THEN 0 ELSE atoi(SubSeq(d, 1, Len(d) - 1)) * 10 + (d[Len(d)] - 48)

RECURSIVE itoa(_)
itoa(n) == IF n < 10 THEN <<48 + n>> ELSE itoa(n \div 10) \o <<48 + (n % 10)>>

\* the host parser: [ok, host] with host the lower-case name and the port
\* when it is not the scheme's default
hostPort(name, port, scheme) ==
    IF name = <<>> THEN [ok |-> FALSE, host |-> <<>>]
    ELSE IF \E k \in 1..Len(name) :
               name[k] < 33 \/ name[k] > 126
               \/ name[k] \in {35, 37, 47, 58, 60, 62, 63, 64, 91, 92, 93, 94, 124}
    THEN [ok |-> FALSE, host |-> <<>>]
    ELSE IF \E k \in 1..Len(port) : ~IsDigit(port[k]) THEN [ok |-> FALSE, host |-> <<>>]
    ELSE IF Len(port) > 5 THEN [ok |-> FALSE, host |-> <<>>]
    ELSE IF port = <<>> \/ atoi(port) = defaultPort(scheme)
    THEN [ok |-> TRUE, host |-> ToLower(name)]
    ELSE IF atoi(port) > 65535 THEN [ok |-> FALSE, host |-> <<>>]
    ELSE [ok |-> TRUE, host |-> ToLower(name) \o B(":") \o itoa(atoi(port))]

jsHost(authority, scheme) ==
    hostPort(Cut(authority, 58)[1], Cut(authority, 58)[2], scheme)

\* single-dot and double-dot path segments
isDot(seg) == ToLower(seg) \in {B("."), B("%2e")}
isDotDot(seg) == ToLower(seg) \in {B(".."), B(".%2e"), B("%2e."), B("%2e%2e")}

\* what a dot segment leaves behind: an empty segment when it is the last
dotTail(i, n) == IF i = n THEN <<<<>>>> ELSE <<>>

shorten(path) == IF Len(path) > 0 THEN SubSeq(path, 1, Len(path) - 1) ELSE path

\* the path state: the segments segs[i..] applied to path
RECURSIVE jsSegments(_, _, _)
jsSegments(segs, i, path) ==
    IF i > Len(segs) THEN path
    ELSE IF isDotDot(segs[i])
    THEN jsSegments(segs, i + 1, shorten(path) \o dotTail(i, Len(segs)))
    ELSE IF isDot(segs[i])
    THEN jsSegments(segs, i + 1, path \o dotTail(i, Len(segs)))
    ELSE jsSegments(segs, i + 1, Append(path, pctEncode(segs[i], pathPlain)))

\* a backslash counts as a slash in a special URL
slashes(s) == [i \in 1..Len(s) |-> IF s[i] = 92 THEN 47 ELSE s[i]]

\* s cut into <<text before ? and #, query, fragment>>
jsParts(s) ==
    << slashes(Cut(Cut(s, 35)[1], 63)[1]),
       IF Cut(Cut(s, 35)[1], 63)[3]
       THEN <<pctEncode(Cut(Cut(s, 35)[1], 63)[2], queryPlain)>> ELSE <<>>,
       IF Cut(s, 35)[3] THEN <<pctEncode(Cut(s, 35)[2], fragmentPlain)>> ELSE <<>> >>

\* the text after the leading slashes
RECURSIVE skipSlashes(_)
skipSlashes(s) == IF s # <<>> /\ s[1] = 47 THEN skipSlashes(Tail(s)) ELSE s

\* a special URL from its scheme, its authority and the path text after it
jsWithHost(scheme, h, pathText, parts) ==
    IF ~h.ok THEN NoURL
    ELSE [ok |-> TRUE, protocol |-> scheme \o B(":"), host |-> h.host,
          path |-> jsSegments(Split(IF pathText = <<>> THEN <<>> ELSE Tail(pathText), 47),
                              1, <<>>),
          opaque |-> <<>>, query |-> parts[2], fragment |-> parts[3]]

jsAuthority(scheme, text, parts) ==
    jsWithHost(scheme, jsHost(Cut(text, 47)[1], scheme),
               IF Cut(text, 47)[3] THEN B("/") \o Cut(text, 47)[2] ELSE <<>>, parts)

\* a URL with a scheme that is not special: the rest is kept as it stands
jsOpaque(scheme, rest) ==
    [ok |-> TRUE, protocol |-> scheme \o B(":"), host |-> <<>>, path |-> <<>>,
     opaque |-> rest, query |-> <<>>, fragment |-> <<>>]

\* a reference without a scheme against a special base
jsRelativeParts(base, main, parts) ==
    IF main = <<>> /\ parts[2] = <<>>
    THEN [base EXCEPT !.fragment = parts[3]]
    ELSE IF main = <<>>
    THEN [base EXCEPT !.query = parts[2], !.fragment = parts[3]]
    ELSE IF HasPrefix(main, B("//"))
    THEN jsAuthority(SubSeq(base.protocol, 1, Len(base.protocol) - 1),
                     skipSlashes(main), parts)
    ELSE IF main[1] = 47
    THEN [base EXCEPT !.path = jsSegments(Split(Tail(main), 47), 1, <<>>),
                      !.query = parts[2], !.fragment = parts[3]]
    ELSE [base EXCEPT !.path = jsSegments(Split(main, 47), 1, shorten(base.path)),
                      !.query = parts[2], !.fragment = parts[3]]

jsRelative(base, s) ==
    IF ~base.ok \/ base.opaque # <<>> \/ base.host = <<>> THEN NoURL
    ELSE jsRelativeParts(base, jsParts(s)[1], jsParts(s))

jsAbsolute(sch, base) ==
    IF ~isSpecial(sch.scheme) THEN jsOpaque(sch.scheme, sch.rest)
    ELSE IF /\ base.ok
            /\ base.protocol = sch.scheme \o B(":")
            /\ ~(sch.rest # <<>> /\ sch.rest[1] \in {47, 92})
    THEN jsRelative(base, sch.rest)
    ELSE jsAuthority(sch.scheme, skipSlashes(jsParts(sch.rest)[1]), jsParts(sch.rest))

jsParse(sch, s, base) ==
    IF sch.ok THEN jsAbsolute(sch, base) ELSE jsRelative(base, s)

\* new URL(s, base) with base a parsed URL, NoURL when there is none
newURLAgainst(s, base) == jsParse(jsScheme(jsTrim(s)), jsTrim(s), base)

\* new URL(s)
newURL(s) == newURLAgainst(s, NoURL)

\* URL.pathname, URL.search, URL.hash, URL.origin, URL.href
urlPathname(u) ==
    IF u.opaque # <<>> \/ u.host = <<>> THEN u.opaque
    ELSE B("/") \o Join(u.path, B("/"))

urlSearch(u) == IF u.query = <<>> \/ u.query[1] = <<>> THEN <<>> ELSE B("?") \o u.query[1]

urlHash(u) == IF u.fragment = <<>> \/ u.fragment[1] = <<>> THEN <<>> ELSE B("#") \o u.fragment[1]

urlOrigin(u) ==
    IF u.host = <<>> THEN B("null") ELSE u.protocol \o B("//") \o u.host

urlHref(u) ==
    (IF u.host = <<>> THEN u.protocol ELSE u.protocol \o B("//") \o u.host)
    \o urlPathname(u)
    \o (IF u.query = <<>> THEN <<>> ELSE B("?") \o u.query[1])
    \o (IF u.fragment = <<>> THEN <<>> ELSE B("#") \o u.fragment[1])

\* new URL(s, base) with base a string
newURLWithBase(s, base) == newURLAgainst(s, newURL(base))

-----------------------------------------------------------------------------
(* The URL resolvers: rewriteUrl of the runtime (assets/app.js) and        *)
(* resolveProxyUrl of the dev server (dev-server.js)                       *)

\* decodeURIComponent: [ok, s]; not ok when it throws
decodeURIComponent(s) ==
    IF unescapeValid(s, 1, "encodePath")
    THEN [ok |-> TRUE, s |-> unescapeFrom(s, 1, "encodePath")]
    ELSE [ok |-> FALSE, s |-> <<>>]

\* the runtime's cell after it is set to url: BASE_URL and BASE_ORIGIN
setBase(url) ==
    [BASE_URL |-> url,
     BASE_ORIGIN |-> IF newURL(url).ok THEN urlOrigin(newURL(url)) ELSE <<>>]

decodedOrEmpty(d) == IF d.ok THEN d.s ELSE <<>>

\* decodeBaseFromLocation for location.href
decodeBaseFromLocation(h) ==
    IF IndexOf(h, B("/proxy?url=")) = 0 THEN <<>>
    ELSE decodedOrEmpty(decodeURIComponent(
             Cut(SubSeq(h, IndexOf(h, B("/proxy?url=")) + 11, Len(h)), 38)[1]))

baseFromDecoded(cell, decoded) == IF decoded # <<>> THEN setBase(decoded) ELSE cell

\* getBaseURL: the cell afterwards; its BASE_URL is what the call returns
getBaseURL(cell, h) ==
    IF cell.BASE_URL # <<>> THEN cell
    ELSE baseFromDecoded(cell, decodeBaseFromLocation(h))

\* getBaseOrigin: the cell afterwards; its BASE_ORIGIN is what the call returns
getBaseOrigin(cell, h) ==
    IF cell.BASE_ORIGIN # <<>> THEN cell ELSE getBaseURL(cell, h)

isProxied(u) == Contains(u, B("/proxy?url="))

\* the text after leading white space
RECURSIVE skipSpace(_)
skipSpace(s) == IF s # <<>> /\ IsSpace(s[1]) THEN skipSpace(Tail(s)) ELSE s

\* /^\s*javascript\s*:/i
isJavascript(s) ==
    /\ HasPrefix(ToLower(skipSpace(s)), B("javascript"))
    /\ HasPrefix(skipSpace(SubSeq(skipSpace(s), 11, Len(skipSpace(s)))), B(":"))

\* /^(https?|wss?):\/\//i
isAbsolute(s) ==
    \E p \in {B("http://"), B("https://"), B("ws://"), B("wss://")} :
        HasPrefix(ToLower(s), p)

protocolOr(u, default) == IF u.ok THEN u.protocol ELSE default

relativeOr(u, s) ==
    IF u.ok THEN B("/proxy?url=") \o encodeURIComponent(urlHref(u)) ELSE s

\* rewriteUrl, the branches that read the base; cell is the cell after the
\* getBaseURL or getBaseOrigin call of the branch
rewriteProtocolRelative(s, cell) ==
    [s |-> B("/proxy?url=") \o encodeURIComponent(
               (IF cell.BASE_URL # <<>>
                THEN protocolOr(newURL(cell.BASE_URL), B("https:"))
                ELSE B("https:")) \o s),
     cell |-> cell]

rewriteRootRelative(s, cell) ==
    [s |-> IF cell.BASE_ORIGIN # <<>>
           THEN B("/proxy?url=") \o encodeURIComponent(cell.BASE_ORIGIN \o s)
           ELSE s,
     cell |-> cell]

rewriteRelative(s, cell) ==
    [s |-> IF cell.BASE_URL # <<>>
           THEN relativeOr(newURLWithBase(s, cell.BASE_URL), s)
           ELSE s,
     cell |-> cell]

rewriteTrimmed(s, cell, h) ==
    IF s = <<>> THEN [s |-> s, cell |-> cell]
    ELSE IF \/ s[1] = 35
            \/ s = B("about:blank")
            \/ \E p \in {B("data:"), B("blob:"), B("mailto:"), B("tel:")} : HasPrefix(s, p)
    THEN [s |-> s, cell |-> cell]
    ELSE IF isJavascript(s) THEN [s |-> B("javascript:void(0)"), cell |-> cell]
    ELSE IF isProxied(s) THEN [s |-> s, cell |-> cell]
    ELSE IF HasPrefix(s, B("//")) THEN rewriteProtocolRelative(s, getBaseURL(cell, h))
    ELSE IF isAbsolute(s)
    THEN [s |-> B("/proxy?url=") \o encodeURIComponent(s), cell |-> cell]
    ELSE IF s[1] = 47 THEN rewriteRootRelative(s, getBaseOrigin(cell, h))
    ELSE rewriteRelative(s, getBaseURL(cell, h))

\* rewriteUrl(raw) of the runtime for a string raw, with the base cell and
\* location.href h: [s, cell], the result and the cell afterwards
rewriteUrl(raw, cell, h) == rewriteTrimmed(jsTrim(raw), cell, h)

\* resolveProxyUrl, the remap of a URL on the proxy host
remapped(abs, base) ==
    newURLAgainst(urlPathname(abs) \o urlSearch(abs) \o urlHash(abs),
                  newURL(urlOrigin(base)))

resolveProxyAbsolute(s, abs, baseUrl, proxyHost) ==
    IF abs.ok /\ ToLower(abs.host) = proxyHost /\ baseUrl # <<>>
       /\ newURL(baseUrl).ok /\ remapped(abs, newURL(baseUrl)).ok
    THEN B("/proxy?url=") \o encodeURIComponent(urlHref(remapped(abs, newURL(baseUrl))))
    ELSE B("/proxy?url=") \o encodeURIComponent(s)

resolveTrimmed(s, baseUrl, proxyHost) ==
    IF \/ s = <<>>
       \/ \E p \in {B("data:"), B("blob:"), B("javascript:"), B("mailto:"),
                   B("tel:"), B("#")} : HasPrefix(s, p)
    THEN s
    ELSE IF s = B("/internex.runtime.js") \/ HasPrefix(s, B("/internex.runtime.js?"))
    THEN s
    ELSE IF Contains(s, B("/proxy?url=")) THEN s
    ELSE IF HasPrefix(s, B("//"))
    THEN B("/proxy?url=") \o encodeURIComponent(
             (IF baseUrl # <<>> THEN newURL(baseUrl).protocol ELSE B("https:")) \o s)
    ELSE IF isAbsolute(s) THEN resolveProxyAbsolute(s, newURL(s), baseUrl, proxyHost)
    ELSE IF s[1] = 47
    THEN (IF baseUrl # <<>>
          THEN B("/proxy?url=") \o encodeURIComponent(urlOrigin(newURL(baseUrl)) \o s)
          ELSE s)
    ELSE IF baseUrl # <<>> THEN relativeOr(newURLWithBase(s, baseUrl), s)
    ELSE s

\* resolveProxyUrl(rawUrl, baseUrl) of the dev server for a string rawUrl
\* and a baseUrl that is empty or parses, with PROXY_HOST
resolveProxyUrl(rawUrl, baseUrl, proxyHost) ==
    IF rawUrl = <<>> THEN rawUrl ELSE resolveTrimmed(jsTrim(rawUrl), baseUrl, proxyHost)

-----------------------------------------------------------------------------
(* Resolver runs: one raw URL through rewriteUrl and through               *)
(* resolveProxyUrl, for a base and a proxy host.                           *)

ProxyHosts == {B("localhost:8080"), B("localhost:3000")}

\* raw URLs on the proxy host, the rest of each after the host
LocalRests ==
    {B("/img.png"), <<>>, B("/a/../b?x=1#f"), B("/x?"), B("//evil.com/x"),
     B("/proxy?url=https%3A%2F%2Fexample.com%2F")}

LocalSchemes == {B("http://"), B("ws://"), B("HTTPS://")}

OtherRaws ==
    {B("https://example.com/a b"), B("  https://other.example/x  "),
     B("//cdn.example.com/x.js"), B("/img.png"), B("img.png"), B("../up.css"),
     B("?q=1"), B("#top"), B("data:text/plain,hi"), B("javascript :alert(1)"),
     B("/proxy?url=https%3A%2F%2Fexample.com%2F"), <<>>, B("mailto:a@b.c"),
     B("about:blank"), B("/internex.runtime.js"), B("ftp://files.example.com/f")}

RawURLs(host) == {s \o host \o r : s \in LocalSchemes, r \in LocalRests} \cup OtherRaws

Bases ==
    {<<>>, B("https://example.com/page"), B("http://example.com:8080/dir/?q"),
     B("not a url")}

\* where the runtime's window may be: the proxy's front page, a proxied page
Hrefs(host) ==
    {B("http://") \o host \o B("/"),
     B("http://") \o host \o B("/proxy?url=https%3A%2F%2Fexample.com%2Fpage&x=1")}

NotDone == [done |-> FALSE, s |-> <<>>]

InitResolve ==
    /\ uHost \in ProxyHosts
    /\ uRaw \in RawURLs(uHost)
    /\ uBase \in Bases
    /\ uHref \in Hrefs(uHost)
    /\ uCell = setBase(uBase)
    /\ uRuntime = NotDone
    /\ uServer = NotDone
    /\ RestResolveIdle

runtimeResult(r) ==
    /\ uRuntime' = [done |-> TRUE, s |-> r.s]
    /\ uCell' = r.cell

\* the runtime rewrites the URL
RewriteUrl ==
    /\ ~uRuntime.done
    /\ runtimeResult(rewriteUrl(uRaw, uCell, uHref))
    /\ UNCHANGED <<uRaw, uBase, uHost, uHref, uServer, notResolve>>

\* the dev server resolves the URL; its callers pass the target of the
\* request as the base, an http or https URL that parses
ResolveProxyUrl ==
    /\ ~uServer.done
    /\ newURL(uBase).ok
    /\ uServer' = [done |-> TRUE, s |-> resolveProxyUrl(uRaw, uBase, uHost)]
    /\ UNCHANGED <<uRaw, uBase, uHost, uHref, uCell, uRuntime, notResolve>>

NextResolve == RewriteUrl \/ ResolveProxyUrl

SpecResolve == InitResolve /\ [][NextResolve]_vars

\* the raw URL is an absolute http, https, ws or wss URL on the proxy host
\* that is not yet proxied, and the base is known
OnProxyHost ==
    /\ isAbsolute(jsTrim(uRaw))
    /\ ~isProxied(uRaw)
    /\ newURL(uRaw).ok
    /\ newURL(uRaw).host = uHost
    /\ newURL(uBase).ok

\* the proxy encoding of the base's origin followed by the path, query and
\* fragment of the raw URL
RemappedForm ==
    B("/proxy?url=") \o encodeURIComponent(
        urlOrigin(newURL(uBase)) \o urlPathname(newURL(uRaw))
            \o urlSearch(newURL(uRaw)) \o urlHash(newURL(uRaw)))

\* C15: for an absolute URL on the proxy host and a known base B the
\* resolver returns the proxy encoding of origin(B) followed by the input's
\* path, query and fragment, never a proxied URL back at the proxy host.
C15_ProxyHostRemapped ==
    OnProxyHost
        => /\ uRuntime.done => uRuntime.s = RemappedForm
           /\ uServer.done => uServer.s = RemappedForm

-----------------------------------------------------------------------------
(* The HTML attribute rewriters: rewriteHtml of the runtime and            *)
(* rewriteHtmlUrls of the dev server, both a global regular-expression     *)
(* replace                                                                  *)

\* the attribute names of both expressions, in the order of the alternation
urlAttrNames ==
    <<B("src"), B("href"), B("action"), B("poster"), B("formaction"),
      B("background"), B("data"), B("cite")>>

\* the first position from j on that holds no white space
RECURSIVE skipWs(_, _)
skipWs(html, j) ==
    IF j <= Len(html) /\ IsSpace(html[j]) THEN skipWs(html, j + 1) ELSE j

\* the first position from j on that holds a byte of set, 0 when none
firstOf(html, j, set) ==
    IF \E k \in j..Len(html) : html[k] \in set
    THEN Min({k \in j..Len(html) : html[k] \in set})
    ELSE 0

NoMatch == [ok |-> FALSE, value |-> 0, close |-> 0]

\* the value and the closing quote of an attribute whose opening quote is
\* at position q.  The dev server's [^"']* ends at the next quote of either
\* kind; the runtime's (?:(?!\2).)*? ends at the next quote of the opening
\* kind and crosses no line end.
quotedValue(html, q, close, runtime) ==
    IF close = 0 THEN NoMatch
    ELSE IF runtime /\ \E k \in (q + 1)..(close - 1) : html[k] \in {10, 13}
    THEN NoMatch
    ELSE [ok |-> TRUE, value |-> q + 1, close |-> close]

quoteAt(html, q, runtime) ==
    IF q > Len(html) \/ html[q] \notin {34, 39} THEN NoMatch
    ELSE quotedValue(html, q,
                     firstOf(html, q + 1, IF runtime THEN {html[q]} ELSE {34, 39}),
                     runtime)

equalsAt(html, j, runtime) ==
    IF j > Len(html) \/ html[j] # 61 THEN NoMatch
    ELSE quoteAt(html, skipWs(html, j + 1), runtime)

\* the names of names that stand at position i, in any letter case
namesAt(html, i, names) ==
    {n \in DOMAIN names :
        /\ i + Len(names[n]) - 1 <= Len(html)
        /\ ToLower(SubSeq(html, i, i + Len(names[n]) - 1)) = names[n]}

\* a match of the expression at position i: [ok, value, close], value the
\* first position of the attribute value and close that of its closing quote
attrMatch(html, i, names, runtime) ==
    IF namesAt(html, i, names) = {} THEN NoMatch
    ELSE equalsAt(html,
                  skipWs(html, i + Len(names[Min(namesAt(html, i, names))])),
                  runtime)

prependText(text, r) == [s |-> text \o r.s, cell |-> r.cell]

\* String.prototype.split(/\s+/) of a trimmed text
RECURSIVE wsSplit(_)
wsSplit(s) ==
    IF firstOf(s, 1, {9, 10, 11, 12, 13, 32}) = 0 THEN <<s>>
    ELSE <<SubSeq(s, 1, firstOf(s, 1, {9, 10, 11, 12, 13, 32}) - 1)>>
         \o wsSplit(skipSpace(SubSeq(s, firstOf(s, 1, {9, 10, 11, 12, 13, 32}), Len(s))))

\* one entry of a srcset: its first token rewritten, the tokens joined
srcsetEntry(tokens, r) ==
    [s |-> Join(<<r.s>> \o Tail(tokens), B(" ")), cell |-> r.cell]

srcsetTokens(entry, tokens, cell, h) ==
    srcsetEntry(tokens, rewriteUrl(tokens[1], cell, h))

RECURSIVE srcsetFrom(_, _, _, _)
srcsetJoin(entries, i, r, h) ==
    IF i = Len(entries) THEN r
    ELSE prependText(r.s \o B(", "), srcsetFrom(entries, i + 1, r.cell, h))

srcsetFrom(entries, i, cell, h) ==
    srcsetJoin(entries, i,
               srcsetTokens(entries[i], wsSplit(jsTrim(entries[i])), cell, h), h)

\* rewriteSrcset for a string; entries whose descriptor is one token
rewriteSrcset(val, cell, h) ==
    IF val = <<>> THEN [s |-> val, cell |-> cell]
    ELSE srcsetFrom(Split(val, 44), 1, cell, h)

\* what the callback of a replace returns for an attribute value: env.pass
\* names the replace
replacement(val, cell, env) ==
    IF env.pass = "server"
    THEN [s |-> resolveProxyUrl(val, env.base, env.host), cell |-> cell]
    ELSE IF env.pass = "srcset" THEN rewriteSrcset(val, cell, env.href)
    ELSE rewriteUrl(val, cell, env.href)

\* the first position from i on where the expression matches, 0 when none
nextMatch(html, i, names, runtime) ==
    IF \E j \in i..Len(html) : attrMatch(html, j, names, runtime).ok
    THEN Min({j \in i..Len(html) : attrMatch(html, j, names, runtime).ok})
    ELSE 0

\* String.prototype.replace with a global expression: the text from
\* position i on, each match replaced, and the cell afterwards
RECURSIVE replaceFrom(_, _, _, _)
replaceMatched(html, i, m, r, env) ==
    prependText(SubSeq(html, i, m.value - 1) \o r.s \o <<html[m.close]>>,
                replaceFrom(html, m.close + 1, r.cell, env))

replaceAt(html, i, cell, env, at) ==
    IF at = 0 THEN [s |-> SubSeq(html, i, Len(html)), cell |-> cell]
    ELSE replaceMatched(
             html, i, attrMatch(html, at, env.names, env.pass # "server"),
             replacement(
                 SubSeq(html, attrMatch(html, at, env.names, env.pass # "server").value,
                        attrMatch(html, at, env.names, env.pass # "server").close - 1),
                 cell, env),
             env)

replaceFrom(html, i, cell, env) ==
    replaceAt(html, i, cell, env, nextMatch(html, i, env.names, env.pass # "server"))

\* rewriteHtmlUrls(html, baseUrl) of the dev server
rewriteHtmlUrls(html, baseUrl, proxyHost) ==
    replaceFrom(html, 1, setBase(<<>>),
                [pass |-> "server", names |-> urlAttrNames, base |-> baseUrl,
                 host |-> proxyHost, href |-> <<>>]).s

rewriteHtmlSrcset(r, h) ==
    replaceFrom(r.s, 1, r.cell,
                [pass |-> "srcset", names |-> <<B("srcset")>>, base |-> <<>>,
                 host |-> <<>>, href |-> h])

\* rewriteHtml(html) of the runtime for a string html: [s, cell]
rewriteHtml(html, cell, h) ==
    IF html = <<>> THEN [s |-> html, cell |-> cell]
    ELSE rewriteHtmlSrcset(
             replaceFrom(html, 1, cell,
                         [pass |-> "url", names |-> urlAttrNames, base |-> <<>>,
                          host |-> <<>>, href |-> h]),
             h)

-----------------------------------------------------------------------------
(* Page runs: one HTML text through rewriteHtml and rewriteHtmlUrls.       *)

MaxFragments == 2

\* text in double quotes
Quoted(text) == <<34>> \o text \o <<34>>

Fragments ==
    {B("<base href=") \o Quoted(B("/dir/")) \o B(">"),
     B("<BASE HREF = 'https://cdn.example.com/'>"),
     B("<a href=") \o Quoted(B("/a")) \o B(">"),
     B("<img src='x.png' alt=") \o Quoted(B("it's")) \o B(">"),
     B("<img srcset=") \o Quoted(B("a.png 1x,  b.png   2x")) \o B(">"),
     B("<p>hi</p>"),
     B("<a href=") \o Quoted(B("#top")) \o B(">"),
     B("<form action=/post>")}

RECURSIVE Concat(_)
Concat(parts) == IF parts = <<>> THEN <<>> ELSE parts[1] \o Concat(Tail(parts))

PageBases == {B("https://example.com/page"), B("http://example.com:8080/dir/?q")}

PageHost == B("localhost:8080")

PageHref == B("http://localhost:8080/")

InitPage ==
    /\ \E parts \in UNION {[1..n -> Fragments] : n \in 0..MaxFragments} :
          pHtml = Concat(parts)
    /\ pBase \in PageBases
    /\ pCell = setBase(pBase)
    /\ pRuntime = NotDone
    /\ pServer = NotDone
    /\ RestPageIdle

pageResult(r) ==
    /\ pRuntime' = [done |-> TRUE, s |-> r.s]
    /\ pCell' = r.cell

\* the runtime rewrites the text (innerHTML, document.write)
RewriteHtml ==
    /\ ~pRuntime.done
    /\ pageResult(rewriteHtml(pHtml, pCell, PageHref))
    /\ UNCHANGED <<pHtml, pBase, pServer, notPage>>

\* the dev server rewrites the page it proxies
RewriteHtmlUrls ==
    /\ ~pServer.done
    /\ pServer' = [done |-> TRUE, s |-> rewriteHtmlUrls(pHtml, pBase, PageHost)]
    /\ UNCHANGED <<pHtml, pBase, pCell, pRuntime, notPage>>

NextPage == RewriteHtml \/ RewriteHtmlUrls

SpecPage == InitPage /\ [][NextPage]_vars

\* the value of the href attribute of a tag, <<>> when the tag has none
hrefOfTag(tag, k) ==
    IF k = 0 THEN <<>>
    ELSE SubSeq(tag, firstOf(tag, k + 4, {34, 39}) + 1,
                firstOf(tag, firstOf(tag, k + 4, {34, 39}) + 1,
                        {tag[firstOf(tag, k + 4, {34, 39})]}) - 1)

\* the href values of the base elements of a text, in order
RECURSIVE BaseHrefs(_)
BaseHrefs(html) ==
    IF IndexOf(ToLower(html), B("<base ")) = 0 THEN <<>>
    ELSE <<hrefOfTag(
             SubSeq(html, IndexOf(ToLower(html), B("<base ")),
                    firstOf(html, IndexOf(ToLower(html), B("<base ")), {62})),
             IndexOf(ToLower(SubSeq(html, IndexOf(ToLower(html), B("<base ")),
                            firstOf(html, IndexOf(ToLower(html), B("<base ")), {62}))),
                     B("href")))>>
         \o BaseHrefs(SubSeq(html, firstOf(html, IndexOf(ToLower(html), B("<base ")), {62}),
                             Len(html)))

\* C16: the output of the HTML rewriter keeps the href value of every
\* <base href="..."> element of its input byte for byte.
C16_BaseHrefKept ==
    /\ pRuntime.done => BaseHrefs(pRuntime.s) = BaseHrefs(pHtml)
    /\ pServer.done => BaseHrefs(pServer.s) = BaseHrefs(pHtml)

-----------------------------------------------------------------------------
(* The namespaced storage wrapper of the runtime (assets/app.js, nsStorage) *)
(* over a real Storage object.  The real object is its list of <<key,       *)
(* value>> pairs in the order key(i) enumerates them: a new key takes a     *)
(* place the browser chooses, the other keys keep their order.              *)

\* Storage.getItem: <<>> for null, <<value>> otherwise
realGetItem(real, key) ==
    IF \E i \in 1..Len(real) : real[i][1] = key
    THEN <<real[CHOOSE i \in 1..Len(real) : real[i][1] = key][2]>>
    ELSE <<>>

\* Storage.setItem, at the place the browser chooses for a new key
realSetItem(real, key, value, at) ==
    IF \E i \in 1..Len(real) : real[i][1] = key
    THEN [i \in 1..Len(real) |-> IF real[i][1] = key THEN <<key, value>> ELSE real[i]]
    ELSE SubSeq(real, 1, at - 1) \o <<<<key, value>>>> \o SubSeq(real, at, Len(real))

\* Storage.removeItem
RECURSIVE realRemoveItem(_, _)
realRemoveItem(real, key) ==
    IF real = <<>> THEN <<>>
    ELSE (IF real[1][1] = key THEN <<>> ELSE <<real[1]>>)
         \o realRemoveItem(Tail(real), key)

\* Storage.key(i), 0-based: <<>> for null
realKey(real, i) == IF i >= 0 /\ i < Len(real) THEN <<real[i + 1][1]>> ELSE <<>>

\* storagePrefix with the base origin left out
storagePrefix_NoOrigin(baseOrigin) == B("__ix_") \o B("_")

\* storagePrefix, baseOrigin being what getBaseOrigin returns
storagePrefix(baseOrigin) == B("__ix_") \o baseOrigin \o B("_")

\* k && k.indexOf(p) === 0
startsWithPrefix(k, p) == k # <<>> /\ k[1] # <<>> /\ HasPrefix(k[1], p)

\* nsStorage.clear: the loop from index i down to 0
RECURSIVE clearFrom(_, _, _)
clearFrom(real, i, p) ==
    IF i < 0 THEN real
    ELSE IF startsWithPrefix(realKey(real, i), p)
    THEN clearFrom(realRemoveItem(real, realKey(real, i)[1]), i - 1, p)
    ELSE clearFrom(real, i - 1, p)

nsClear(real, p) == clearFrom(real, Len(real) - 1, p)

\* nsStorage.key: the loop from index i on, n prefixed keys seen
RECURSIVE keyFrom(_, _, _, _, _)
keyFrom(real, i, n, idx, p) ==
    IF i >= Len(real) THEN <<>>
    ELSE IF startsWithPrefix(realKey(real, i), p)
    THEN (IF n = idx
          THEN <<SubSeq(realKey(real, i)[1], Len(p) + 1, Len(realKey(real, i)[1]))>>
          ELSE keyFrom(real, i + 1, n + 1, idx, p))
    ELSE keyFrom(real, i + 1, n, idx, p)

nsKey(real, idx, p) == keyFrom(real, 0, 0, idx, p)

\* nsStorage.length: the loop from index i on
RECURSIVE lengthFrom(_, _, _)
lengthFrom(real, i, p) ==
    IF i >= Len(real) THEN 0
    ELSE (IF realKey(real, i) # <<>> /\ HasPrefix(realKey(real, i)[1], p) THEN 1 ELSE 0)
         + lengthFrom(real, i + 1, p)

nsLength(real, p) == lengthFrom(real, 0, p)

nsGetItem(real, k, p) == realGetItem(real, p \o k)

nsSetItem(real, k, v, p, at) == realSetItem(real, p \o k, v, at)

nsRemoveItem(real, k, p) == realRemoveItem(real, p \o k)

-----------------------------------------------------------------------------
(* Storage runs: calls of the wrapper and changes of the base, over a real *)
(* storage that already holds keys of this and of other origins.           *)

MaxCalls == 2

StorageOrigins == {B("https://example.com"), B("https://other.example")}

StorageKeys == {B("k"), B("a")}

StorageValues == {B("v"), B("w")}

\* what the real storage holds when the runtime starts
RealStorages ==
    { <<>>,
      << <<B("k"), B("own")>>, <<B("__ix_https://example.com_k"), B("v")>>,
         <<B("__ix_https://other.example_k"), B("o")>> >>,
      << <<B("__ix_https://example.com_"), B("e")>>, <<B("__ix__a"), B("n")>>,
         <<B("__ix_https://example.com_a"), B("v")>> >> }

StorageHref == B("http://localhost:8080/")

NoCall == [op |-> "idle", k |-> <<>>, v |-> <<>>, idx |-> 0, ret |-> <<>>, prev |-> <<>>]

InitStorage ==
    /\ wReal \in RealStorages
    /\ \E o \in StorageOrigins \cup {<<>>} : wCell = setBase(o)
    /\ wLast = NoCall
    /\ wCount = 0
    /\ RestStorageIdle

\* a call of the wrapper: storagePrefix reads the base origin first
called(cell, op, k, v, idx, ret, real) ==
    /\ wCount < MaxCalls
    /\ wCount' = wCount + 1
    /\ wCell' = cell
    /\ wLast' = [op |-> op, k |-> k, v |-> v, idx |-> idx, ret |-> ret, prev |-> wReal]
    /\ wReal' = real
    /\ UNCHANGED notStorage

getItemWith(k, cell) ==
    called(cell, "getItem", k, <<>>, 0,
           nsGetItem(wReal, k, storagePrefix(cell.BASE_ORIGIN)), wReal)

GetItem == \E k \in StorageKeys : getItemWith(k, getBaseOrigin(wCell, StorageHref))

setItemWith(k, v, at, cell) ==
    called(cell, "setItem", k, v, 0, <<>>,
           nsSetItem(wReal, k, v, storagePrefix(cell.BASE_ORIGIN), at))

SetItem ==
    \E k \in StorageKeys, v \in StorageValues, at \in 1..(Len(wReal) + 1) :
        setItemWith(k, v, at, getBaseOrigin(wCell, StorageHref))

\* setItem when the real storage refuses the write (quota): it throws
SetItemFull ==
    \E k \in StorageKeys, v \in StorageValues :
        called(getBaseOrigin(wCell, StorageHref), "setItem", k, v, 0, <<>>, wReal)

removeItemWith(k, cell) ==
    called(cell, "removeItem", k, <<>>, 0, <<>>,
           nsRemoveItem(wReal, k, storagePrefix(cell.BASE_ORIGIN)))

RemoveItem == \E k \in StorageKeys : removeItemWith(k, getBaseOrigin(wCell, StorageHref))

clearWith(cell) ==
    called(cell, "clear", <<>>, <<>>, 0, <<>>,
           nsClear(wReal, storagePrefix(cell.BASE_ORIGIN)))

Clear == clearWith(getBaseOrigin(wCell, StorageHref))

keyWith(idx, cell) ==
    called(cell, "key", <<>>, <<>>, idx,
           nsKey(wReal, idx, storagePrefix(cell.BASE_ORIGIN)), wReal)

Key == \E idx \in 0..(Len(wReal) + 1) : keyWith(idx, getBaseOrigin(wCell, StorageHref))

lengthWith(cell) ==
    called(cell, "length", <<>>, <<>>, 0,
           nsLength(wReal, storagePrefix(cell.BASE_ORIGIN)), wReal)

Length == lengthWith(getBaseOrigin(wCell, StorageHref))

\* the page moves to another origin: setBase
SetBase ==
    /\ \E o \in StorageOrigins : wCell' = setBase(o \o B("/next"))
    /\ wCell' # wCell
    /\ wLast' = NoCall
    /\ UNCHANGED <<wReal, wCount, notStorage>>

NextStorage ==
    \/ GetItem
    \/ SetItem
    \/ SetItemFull
    \/ RemoveItem
    \/ Clear
    \/ Key
    \/ Length
    \/ SetBase

SpecStorage == InitStorage /\ [][NextStorage]_vars

\* the prefix of the current base origin
CurrentPrefix == B("__ix_") \o wCell.BASE_ORIGIN \o B("_")

\* the keys of a real storage, in order, and those that start with p
RealKeys(real) == [i \in 1..Len(real) |-> real[i][1]]

RECURSIVE PrefixedKeys(_, _)
PrefixedKeys(real, p) ==
    IF real = <<>> THEN <<>>
    ELSE (IF HasPrefix(real[1][1], p) THEN <<real[1][1]>> ELSE <<>>)
         \o PrefixedKeys(Tail(real), p)

\* the pairs of a real storage other than that of key
Others(real, key) == {real[i] : i \in {j \in 1..Len(real) : real[j][1] # key}}

-----------------------------------------------------------------------------
(* Body rewriting (package rewriter, callRewrite; handleProxy, body part)   *)

\* C.GoString: the bytes of a C string up to its terminating NUL
RECURSIVE GoString(_)
GoString(s) ==
    IF s = <<>> \/ s[1] = 0 THEN <<>> ELSE <<s[1]>> \o GoString(Tail(s))

\* the kind argument the wrappers RewriteHTML, RewriteCSS and RewriteJS pass
kindOf(category) ==
    CASE category = "ContentHTML" -> "html"
      [] category = "ContentCSS" -> "css"
      [] category = "ContentJS" -> "js"
      [] OTHER -> ""

\* what a Rust function returned: a nil pointer, or a C string
NilResult == [isNil |-> TRUE, s |-> <<>>]

CResult(s) == [isNil |-> FALSE, s |-> s]

\* callRewrite with a nil result read as the empty C string
callRewrite_NilAsEmpty(kind, content, cResult) ==
    IF kind \notin {"html", "css", "js"} THEN content
    ELSE GoString(cResult.s)

\* callRewrite: cResult is what the Rust function of that kind returns for
\* the payload. json.Marshal of a struct of three strings returns no error,
\* so the payload is always handed over.
callRewrite(kind, content, cResult) ==
    IF kind \notin {"html", "css", "js"} THEN content
    ELSE IF cResult.isNil THEN content
    ELSE GoString(cResult.s)

\* http.Error: the text written after the header
errorBody(text) == text \o <<10>>

\* handleProxy after the header copy, with the body as bytes: hdr is the
\* client's header set, content the upstream body, cResult what the Rust
\* function returns if it is called; bodyErr says the upstream connection
\* breaks before the first byte of the body
writeBody(method, status, hdr, category, content, bodyErr, cResult) ==
    IF method = "HEAD"
    THEN [status |-> status, header |-> hdr, body |-> <<>>]
    ELSE IF category = "ContentOther"
    THEN [status |-> status, header |-> hdr,
          body |-> IF bodyErr THEN <<>> ELSE content]
    ELSE IF bodyErr
    THEN [status |-> 502, header |-> httpErrorHeader(hdr),
          body |-> errorBody(B("reading upstream body failed"))]
    ELSE [status |-> status, header |-> HDel(hdr, B("Content-Length")),
          body |-> callRewrite(kindOf(category), content, cResult)]

\* whether handleProxy reaches the switch that calls the rewriter
callsRewriter(method, category, bodyErr) ==
    method # "HEAD" /\ category # "ContentOther" /\ ~bodyErr

\* the rewriter called with an empty base URL
rewriterCall_NoBase(category, proxyOrigin, targetURL, content) ==
    [kind |-> kindOf(category), proxyOrigin |-> proxyOrigin,
     baseURL |-> <<>>, content |-> content]

\* the switch of handleProxy: the rewriter it calls and the arguments
rewriterCall(category, proxyOrigin, targetURL, content) ==
    [kind |-> kindOf(category), proxyOrigin |-> proxyOrigin,
     baseURL |-> targetURL, content |-> content]

-----------------------------------------------------------------------------
(* Rewrite runs: one upstream response through handleProxy's body part      *)

RewriteMethods == {"GET", "HEAD"}

UpstreamStatuses == {200, 404, 500}

ContentTypes ==
    { <<>>, B("text/html; charset=utf-8"), B("text/css"),
      B("application/javascript"), B("image/png") }

UpstreamBodies == { <<>>, B("<a href=/x>"), B("a") \o <<0>> \o B("b") }

\* what the Rust functions may return for a body
CResults(content) ==
    { NilResult, CResult(<<0>>), CResult(B("/proxy?url=") \o content \o <<0>>) }

contentTypeLines(ct) ==
    IF ct = <<>> THEN <<>> ELSE <<<<B("content-type"), ct>>>>

\* the Content-Length line of an upstream that sends one
contentLengthLines(sends, body) ==
    IF sends THEN <<<<B("content-length"), itoa(Len(body))>>>> ELSE <<>>

\* the target of the rewrite runs
RewriteTarget == B("https://example.com/page")

InitRewrite ==
    /\ RestRewriteIdle
    /\ rwMethod \in RewriteMethods
    /\ \E status \in UpstreamStatuses, ct \in ContentTypes,
          body \in UpstreamBodies, bodyErr \in BOOLEAN, sends \in BOOLEAN :
          rwResp = [status |-> status,
                    header |-> ReadHeader(contentTypeLines(ct)
                                          \o contentLengthLines(sends, body)),
                    body |-> body, bodyErr |-> bodyErr]
    /\ rwCall = [called |-> FALSE, kind |-> "", proxyOrigin |-> <<>>,
                 baseURL |-> <<>>, content |-> <<>>, isNil |-> FALSE, s |-> <<>>]
    /\ rwOut = [status |-> 0, header |-> EmptyHeader, body |-> <<>>]
    /\ rwStep = "fetched"

calledWith(call, cResult) ==
    [called |-> TRUE, kind |-> call.kind, proxyOrigin |-> call.proxyOrigin,
     baseURL |-> call.baseURL, content |-> call.content,
     isNil |-> cResult.isNil, s |-> cResult.s]

respondWith(category, cResult) ==
    /\ rwOut' = writeBody(rwMethod, rwResp.status,
                          CopyResponseHeadersWithContext(
                              EmptyHeader, rwResp.header, RewriteTarget, ProxyOrigin),
                          category, rwResp.body, rwResp.bodyErr, cResult)
    /\ rwCall' = IF callsRewriter(rwMethod, category, rwResp.bodyErr)
                 THEN calledWith(rewriterCall(category, ProxyOrigin, RewriteTarget,
                                              rwResp.body),
                                 cResult)
                 ELSE rwCall

\* handleProxy from the header copy to the end of the response
Respond ==
    /\ rwStep = "fetched"
    /\ \E cResult \in CResults(rwResp.body) :
          respondWith(Categorize(DetectContentType(rwResp.header)), cResult)
    /\ rwStep' = "done"
    /\ UNCHANGED <<rwMethod, rwResp, notRewrite>>

NextRewrite == Respond

SpecRewrite == InitRewrite /\ [][NextRewrite]_vars

\* C18: when the rewriter is called on an HTML, CSS or JS response and
\* fails (the Rust function returns no result), the client receives the
\* upstream status code and the upstream body, byte for byte.
C18_FailurePassthrough ==
    (rwStep = "done" /\ rwCall.called /\ rwCall.isNil)
        => /\ rwOut.status = rwResp.status
           /\ rwOut.body = rwResp.body

C18_Witness ==
    /\ rwStep = "done"
    /\ rwCall.called /\ rwCall.isNil /\ rwCall.kind = "css"
    /\ rwResp.status = 404
    /\ rwOut.body = B("a") \o <<0>> \o B("b")

-----------------------------------------------------------------------------
(* Cancellation: a proxied request in flight and a client that leaves       *)
(* (package transport, fetchInternal and handleProxy; net/http)             *)

\* the chunks an upstream body is sent in, at most
MaxChunks == 2

\* the writes the response buffers take without reaching the connection
MaxBuffered == 1

CancelMethods == {"GET", "HEAD"}

CancelCategories == {"ContentOther", "ContentHTML"}

\* A GET or HEAD request is in flight: fetchInternal built the request with
\* http.NewRequest, which gives it the background context, and handleProxy
\* is inside httpClient.Do. Neither the client nor the transport has a
\* timeout for the response header or the body.
InitCancel ==
    /\ RestCancelIdle
    /\ kMethod \in CancelMethods
    /\ kPc = "do"
    /\ kClient = "connected"
    /\ kCtxDone = FALSE
    /\ kUp = [headers |-> FALSE, category |-> "", sent |-> 0, ended |-> FALSE,
              failed |-> FALSE]
    /\ kRead = 0
    /\ kBuffered = 0
    /\ kBody = "none"
    /\ kStatus = 0

\* the upstream connection is open and the request not given up
upstreamOpen == ~kUp.failed /\ ~kUp.ended /\ kBody # "closed"

\* the upstream server sends the response header
OriginSendsHeaders(category) ==
    /\ upstreamOpen /\ kPc = "do" /\ ~kUp.headers
    /\ kUp' = [kUp EXCEPT !.headers = TRUE, !.category = category]
    /\ UNCHANGED <<kMethod, kPc, kClient, kCtxDone, kRead, kBuffered, kBody,
                   kStatus, notCancel>>

\* the upstream server sends a chunk of the body
OriginSendsChunk ==
    /\ upstreamOpen /\ kUp.headers /\ kUp.sent < MaxChunks
    /\ kUp' = [kUp EXCEPT !.sent = @ + 1]
    /\ UNCHANGED <<kMethod, kPc, kClient, kCtxDone, kRead, kBuffered, kBody,
                   kStatus, notCancel>>

\* the upstream server ends the body
OriginEnds ==
    /\ upstreamOpen /\ kUp.headers
    /\ kUp' = [kUp EXCEPT !.ended = TRUE]
    /\ UNCHANGED <<kMethod, kPc, kClient, kCtxDone, kRead, kBuffered, kBody,
                   kStatus, notCancel>>

\* the upstream connection breaks (reset, or the keep-alive probes of the
\* dialer find the peer dead)
OriginFails ==
    /\ upstreamOpen
    /\ kUp' = [kUp EXCEPT !.failed = TRUE]
    /\ UNCHANGED <<kMethod, kPc, kClient, kCtxDone, kRead, kBuffered, kBody,
                   kStatus, notCancel>>

\* the client closes its connection; the server's background read sees it
\* and cancels the context of the request
ClientDisconnects ==
    /\ kClient = "connected" /\ kPc # "returned"
    /\ kClient' = "gone"
    /\ kCtxDone' = TRUE
    /\ UNCHANGED <<kMethod, kPc, kUp, kRead, kBuffered, kBody, kStatus, notCancel>>

\* httpClient.Do returns the response: handleProxy copies the header and,
\* for HEAD, writes the status and returns; for other content it writes the
\* status and enters io.Copy; for rewritable content it enters io.ReadAll
DoReturns ==
    /\ kPc = "do" /\ kUp.headers
    /\ kBody' = IF kMethod = "HEAD" THEN "closed" ELSE "open"
    /\ kPc' = IF kMethod = "HEAD" THEN "returned"
              ELSE IF kUp.category = "ContentOther" THEN "copyRead"
              ELSE "readAll"
    /\ kStatus' = IF kMethod = "HEAD" \/ kUp.category = "ContentOther"
                  THEN 200 ELSE 0
    /\ UNCHANGED <<kMethod, kClient, kCtxDone, kUp, kRead, kBuffered, notCancel>>

\* httpClient.Do returns an error: 502, there is no response to close
DoFails ==
    /\ kPc = "do" /\ ~kUp.headers /\ kUp.failed
    /\ kPc' = "returned"
    /\ kStatus' = 502
    /\ UNCHANGED <<kMethod, kClient, kCtxDone, kUp, kRead, kBuffered, kBody,
                   notCancel>>

\* io.Copy: Read returns a chunk the upstream sent
CopyReads ==
    /\ kPc = "copyRead" /\ kRead < kUp.sent
    /\ kRead' = kRead + 1
    /\ kPc' = "copyWrite"
    /\ UNCHANGED <<kMethod, kClient, kCtxDone, kUp, kBuffered, kBody, kStatus,
                   notCancel>>

\* io.Copy: Read returns EOF or an error, io.Copy and the handler return
CopyEnds ==
    /\ kPc = "copyRead" /\ kRead = kUp.sent /\ (kUp.ended \/ kUp.failed)
    /\ kPc' = "returned"
    /\ kBody' = "closed"
    /\ UNCHANGED <<kMethod, kClient, kCtxDone, kUp, kRead, kBuffered, kStatus,
                   notCancel>>

\* io.Copy: Write of the chunk to a client that is connected
CopyWrites ==
    /\ kPc = "copyWrite" /\ kClient = "connected"
    /\ kPc' = "copyRead"
    /\ UNCHANGED <<kMethod, kClient, kCtxDone, kUp, kRead, kBuffered, kBody,
                   kStatus, notCancel>>

\* io.Copy: Write of the chunk after the client left is taken by the
\* buffers of the response
CopyWriteBuffered ==
    /\ kPc = "copyWrite" /\ kClient = "gone" /\ kBuffered < MaxBuffered
    /\ kBuffered' = kBuffered + 1
    /\ kPc' = "copyRead"
    /\ UNCHANGED <<kMethod, kClient, kCtxDone, kUp, kRead, kBody, kStatus,
                   notCancel>>

\* io.Copy: Write of the chunk after the client left fails, io.Copy and the
\* handler return
CopyWriteFails ==
    /\ kPc = "copyWrite" /\ kClient = "gone"
    /\ kPc' = "returned"
    /\ kBody' = "closed"
    /\ UNCHANGED <<kMethod, kClient, kCtxDone, kUp, kRead, kBuffered, kStatus,
                   notCancel>>

\* io.ReadAll returns at the end of the body: the rewritten text is written
\* (a failed write is ignored) and the handler returns; on a read error the
\* handler answers 502 and returns
ReadAllReturns ==
    /\ kPc = "readAll" /\ (kUp.ended \/ kUp.failed)
    /\ kRead' = kUp.sent
    /\ kPc' = "returned"
    /\ kBody' = "closed"
    /\ kStatus' = IF kUp.ended THEN 200 ELSE 502
    /\ UNCHANGED <<kMethod, kClient, kCtxDone, kUp, kBuffered, notCancel>>

\* the steps of the handler's goroutine
HandlerSteps ==
    \/ DoReturns
    \/ DoFails
    \/ CopyReads
    \/ CopyEnds
    \/ CopyWrites
    \/ CopyWriteBuffered
    \/ CopyWriteFails
    \/ ReadAllReturns

NextCancel ==
    \/ \E category \in CancelCategories : OriginSendsHeaders(category)
    \/ OriginSendsChunk
    \/ OriginEnds
    \/ OriginFails
    \/ ClientDisconnects
    \/ HandlerSteps

\* The Go scheduler runs the handler's goroutine whenever the call it is in
\* can return; nothing obliges the upstream server to send, end or fail.
SpecCancel == InitCancel /\ [][NextCancel]_vars /\ WF_vars(HandlerSteps)

\* the handler gave up the upstream request and closed the body, if any
Released == kPc = "returned" /\ kBody # "open"

\* C19: once the client has disconnected with the request in flight, the
\* handler eventually abandons the upstream request and closes the upstream
\* response body.
C19_DisconnectAbandons == (kClient = "gone") ~> Released

-----------------------------------------------------------------------------
(* The session store under concurrency (package transport, SessionStore):   *)
(* goroutines inside SetCookiesFromResponse and CookieHeader on one origin  *)

\* the calls of CookieHeader each reading goroutine makes, at most
MaxReads == 1

\* goroutines that absorb a response, and goroutines that read the header
Writers == {1, 2}

Readers == {3, 4}

\* resp.Cookies() of the response each writer absorbs
AbsorbedCookies(w) ==
    IF w = 1
    THEN Cookies(ReadHeader(<<<<B("set-cookie"), B("sid=1")>>,
                              <<B("set-cookie"), B("tok=1")>>>>))
    ELSE Cookies(ReadHeader(<<<<B("set-cookie"), B("sid=2")>>,
                              <<B("set-cookie"), B("new=2")>>>>))

\* sync.RWMutex.Lock can return with every holder gone
canLock_Always(mu) == TRUE

\* sync.RWMutex.Lock can return: no writer and no reader holds the mutex
canLock(mu) == mu.writer = 0 /\ mu.readers = {}

\* sync.RWMutex.RLock can return: no writer holds the mutex
canRLock(mu) == mu.writer = 0

NoCallYet == [pc |-> "start", i |-> 0, n |-> 0, parts |-> <<>>, calls |-> 0]

InitStore ==
    /\ RestStoreIdle
    /\ zExists = FALSE
    /\ zCookies = <<>>
    /\ zStoreMu = [writer |-> 0, readers |-> {}]
    /\ zSessMu = [writer |-> 0, readers |-> {}]
    /\ zProc = [p \in Writers \cup Readers |-> NoCallYet]
    /\ zSnaps = {<<>>}
    /\ zResults = {}

\* getOrCreate, first lookup under s.mu.RLock
WriterLookup(w) ==
    /\ zProc[w].pc = "start" /\ canRLock(zStoreMu)
    /\ zProc' = [zProc EXCEPT ![w].pc = IF zExists THEN "sessLock" ELSE "storeLock"]
    /\ UNCHANGED <<zExists, zCookies, zStoreMu, zSessMu, zSnaps, zResults, notStore>>

\* getOrCreate: s.mu.Lock
WriterStoreLock(w) ==
    /\ zProc[w].pc = "storeLock" /\ canLock(zStoreMu)
    /\ zStoreMu' = [zStoreMu EXCEPT !.writer = w]
    /\ zProc' = [zProc EXCEPT ![w].pc = "create"]
    /\ UNCHANGED <<zExists, zCookies, zSessMu, zSnaps, zResults, notStore>>

\* getOrCreate: the second lookup, the insert of a new session whose
\* Cookies is nil if there is none, and the deferred s.mu.Unlock
WriterCreate(w) ==
    /\ zProc[w].pc = "create"
    /\ zExists' = TRUE
    /\ zCookies' = IF zExists THEN zCookies ELSE NewOriginSession.Cookies
    /\ zStoreMu' = [zStoreMu EXCEPT !.writer = 0]
    /\ zProc' = [zProc EXCEPT ![w].pc = "sessLock"]
    /\ UNCHANGED <<zSessMu, zSnaps, zResults, notStore>>

\* SetCookiesFromResponse: sess.mu.Lock
WriterSessLock(w) ==
    /\ zProc[w].pc = "sessLock" /\ canLock(zSessMu)
    /\ zSessMu' = [zSessMu EXCEPT !.writer = w]
    /\ zProc' = [zProc EXCEPT ![w].pc = "upsert", ![w].i = 1]
    /\ UNCHANGED <<zExists, zCookies, zStoreMu, zSnaps, zResults, notStore>>

\* SetCookiesFromResponse: one turn of the loop over the response's cookies
WriterUpsert(w) ==
    /\ zProc[w].pc = "upsert" /\ zProc[w].i <= Len(AbsorbedCookies(w))
    /\ zCookies' = upsertCookies(zCookies, <<AbsorbedCookies(w)[zProc[w].i]>>, 1)
    /\ zProc' = [zProc EXCEPT ![w].i = @ + 1]
    /\ UNCHANGED <<zExists, zStoreMu, zSessMu, zSnaps, zResults, notStore>>

\* SetCookiesFromResponse: the end of the loop and the deferred
\* sess.mu.Unlock; the absorb call is over
WriterUnlock(w) ==
    /\ zProc[w].pc = "upsert" /\ zProc[w].i > Len(AbsorbedCookies(w))
    /\ zSessMu' = [zSessMu EXCEPT !.writer = 0]
    /\ zProc' = [zProc EXCEPT ![w].pc = "done"]
    /\ zSnaps' = zSnaps \cup {zCookies}
    /\ UNCHANGED <<zExists, zCookies, zStoreMu, zResults, notStore>>

\* CookieHeader: the lookup under s.mu.RLock; without a session the call
\* returns the empty string
ReaderLookup(r) ==
    /\ zProc[r].pc = "start" /\ zProc[r].calls < MaxReads /\ canRLock(zStoreMu)
    /\ zProc' = [zProc EXCEPT ![r].pc = IF zExists THEN "sessRLock" ELSE "start",
                              ![r].calls = IF zExists THEN @ ELSE @ + 1]
    /\ zResults' = IF zExists THEN zResults ELSE zResults \cup {<<r, <<>>>>}
    /\ UNCHANGED <<zExists, zCookies, zStoreMu, zSessMu, zSnaps, notStore>>

\* CookieHeader: sess.mu.RLock and the start of the range loop, which
\* evaluates sess.Cookies once
ReaderSessRLock(r) ==
    /\ zProc[r].pc = "sessRLock" /\ canRLock(zSessMu)
    /\ zSessMu' = [zSessMu EXCEPT !.readers = @ \cup {r}]
    /\ zProc' = [zProc EXCEPT ![r].pc = "loop", ![r].i = 1,
                              ![r].n = Len(zCookies), ![r].parts = <<>>]
    /\ UNCHANGED <<zExists, zCookies, zStoreMu, zSnaps, zResults, notStore>>

\* CookieHeader: one turn of the range loop (no cookie of these runs has an
\* expiry time)
ReaderTurn(r) ==
    /\ zProc[r].pc = "loop" /\ zProc[r].i <= zProc[r].n
    /\ zProc' = [zProc EXCEPT
                    ![r].parts = @ \o cookieParts(<<zCookies[zProc[r].i]>>, 1, 0),
                    ![r].i = @ + 1]
    /\ UNCHANGED <<zExists, zCookies, zStoreMu, zSessMu, zSnaps, zResults, notStore>>

\* CookieHeader: strings.Join, the return and the deferred sess.mu.RUnlock
ReaderReturn(r) ==
    /\ zProc[r].pc = "loop" /\ zProc[r].i > zProc[r].n
    /\ zResults' = zResults \cup {<<r, Join(zProc[r].parts, B("; "))>>}
    /\ zSessMu' = [zSessMu EXCEPT !.readers = @ \ {r}]
    /\ zProc' = [zProc EXCEPT ![r].pc = "start", ![r].calls = @ + 1]
    /\ UNCHANGED <<zExists, zCookies, zStoreMu, zSnaps, notStore>>

NextStore ==
    \/ \E w \in Writers : WriterLookup(w)
    \/ \E w \in Writers : WriterStoreLock(w)
    \/ \E w \in Writers : WriterCreate(w)
    \/ \E w \in Writers : WriterSessLock(w)
    \/ \E w \in Writers : WriterUpsert(w)
    \/ \E w \in Writers : WriterUnlock(w)
    \/ \E r \in Readers : ReaderLookup(r)
    \/ \E r \in Readers : ReaderSessRLock(r)
    \/ \E r \in Readers : ReaderTurn(r)
    \/ \E r \in Readers : ReaderReturn(r)

SpecStore == InitStore /\ [][NextStore]_vars

\* the name=value segments of the cookies the responses carry
AbsorbedSegments ==
    {c.Name \o <<61>> \o c.Value :
        c \in UNION {{AbsorbedCookies(w)[i] : i \in 1..Len(AbsorbedCookies(w))} :
                      w \in Writers}}

\* the header string of a whole cookie list
headerOf(list) == Join(cookieParts(list, 1, 0), B("; "))

\* the segments of a header string: the text between semicolons, without
\* the space that follows a semicolon
segmentsOf(s) ==
    [i \in 1..Len(Split(s, 59)) |->
        IF i > 1 /\ HasPrefix(Split(s, 59)[i], <<32>>)
        THEN Tail(Split(s, 59)[i]) ELSE Split(s, 59)[i]]

wholeSegments(s) ==
    s = <<>> \/ \A i \in 1..Len(segmentsOf(s)) : segmentsOf(s)[i] \in AbsorbedSegments

\* C20: whatever the interleaving of the absorb and read calls on one
\* origin, every string CookieHeader returned is the "; "-join of
\* name=value over a cookie list that existed between absorb calls, and
\* each of its segments is a whole name=value of an absorbed cookie.
C20_NoPartialCookies ==
    \A res \in zResults :
        /\ \E list \in zSnaps : res[2] = headerOf(list)
        /\ wholeSegments(res[2])

C20_Witness ==
    /\ \A w \in Writers : zProc[w].pc = "done"
    /\ <<3, B("sid=1; tok=1")>> \in zResults
    /\ <<4, B("sid=2; tok=1; new=2")>> \in zResults

-----------------------------------------------------------------------------
(* The leading pair of a forwarded Set-Cookie value                         *)

\* the text of a Set-Cookie value before its first semicolon
leadingPair(setCookie) == Split(setCookie, 59)[1]

\* C30: the forwarded Set-Cookie value starts with the name=value pair of
\* the upstream value, whatever the cookie's name; only attribute segments
\* after the first are removed.
C30_LeadingPairKept ==
    kStep = "forwarded"
        => /\ Len(kOut) = 1
           /\ leadingPair(kOut[1]) = leadingPair(kIn)

-----------------------------------------------------------------------------
(* The origin of the cookies the dispatcher stores and sends                *)

\* C27: the cookies handleProxy stores under an origin were set by a
\* response whose own URL has that origin, and an upstream request that
\* carries cookies of the store goes to the origin they are stored under,
\* also after redirects to another origin.
C27_CookiesOfOrigin ==
    [][/\ (/\ hPc = "fetching" /\ hPc' \in {"done", "bridge"} /\ hErr' = "none"
           /\ Cookies(hLast'.header) # <<>>)
            => ExtractOrigin(upReq.url) = ExtractOrigin(hTarget)
       /\ (hPc' = "fetching" /\ HGet(upReq'.header, B("Cookie")) # <<>>)
            => ExtractOrigin(upReq'.url) = ExtractOrigin(hTarget')]_vars

-----------------------------------------------------------------------------
(* The body handleProxy writes, by content category                         *)

\* the content category of the upstream response of the rewrite run
upstreamCategory == Categorize(DetectContentType(rwResp.header))

\* what the client received for the category: the upstream body and
\* Content-Length for other content; for HTML, CSS and JS the result of the
\* matching rewriter called with the proxy origin, the target and the body,
\* and no Content-Length
bodyByCategory(category) ==
    IF category = "ContentOther"
    THEN /\ ~rwCall.called
         /\ rwOut.body = rwResp.body
         /\ HGet(rwOut.header, B("Content-Length"))
               = HGet(rwResp.header, B("Content-Length"))
    ELSE /\ rwCall.called
         /\ rwCall.kind = kindOf(category)
         /\ rwCall.proxyOrigin = ProxyOrigin
         /\ rwCall.baseURL = RewriteTarget
         /\ rwCall.content = rwResp.body
         /\ rwOut.body = IF rwCall.isNil THEN rwResp.body ELSE GoString(rwCall.s)
         /\ B("Content-Length") \notin DOMAIN rwOut.header

\* C25 as stated: for every non-101 response to a non-HEAD request the body
\* is streamed unchanged with its Content-Length (other content) or passed
\* through the matching rewriter with the proxy origin and T, without
\* Content-Length (HTML, CSS, JS).
C25_BodyByCategory ==
    (rwStep = "done" /\ rwMethod # "HEAD") => bodyByCategory(upstreamCategory)

\* C25: the same for every such response whose body is read to its end
\* without an error.
C25_BodyByCategoryWhenRead ==
    (rwStep = "done" /\ rwMethod # "HEAD" /\ ~rwResp.bodyErr)
        => bodyByCategory(upstreamCategory)

C25_Witness ==
    /\ rwStep = "done" /\ rwMethod = "GET" /\ ~rwResp.bodyErr
    /\ upstreamCategory = "ContentJS"
    /\ HGet(rwResp.header, B("Content-Length")) = B("11")
    /\ rwCall.called /\ ~rwCall.isNil
    /\ rwOut.body = B("/proxy?url=<a href=/x>")

-----------------------------------------------------------------------------
(* Navigation patches and base updates of the runtime (assets/app.js)       *)

\* resolveAbsolute, the branches that read the base; cell is the cell after
\* the getBaseURL or getBaseOrigin call of the branch
absoluteProtocolRelative(s, cell) ==
    [s |-> (IF cell.BASE_URL # <<>>
            THEN protocolOr(newURL(cell.BASE_URL), B("https:"))
            ELSE B("https:")) \o s,
     cell |-> cell]

absoluteRootRelative(s, cell) ==
    [s |-> IF cell.BASE_ORIGIN # <<>> THEN cell.BASE_ORIGIN \o s ELSE s,
     cell |-> cell]

hrefOr(u, s) == IF u.ok THEN urlHref(u) ELSE s

absoluteRelative(s, cell) ==
    [s |-> IF cell.BASE_URL # <<>>
           THEN hrefOr(newURLWithBase(s, cell.BASE_URL), s) ELSE s,
     cell |-> cell]

resolveAbsoluteTrimmed(s, cell, h) ==
    IF s = <<>> THEN [s |-> <<>>, cell |-> cell]
    ELSE IF isAbsolute(s) THEN [s |-> s, cell |-> cell]
    ELSE IF HasPrefix(s, B("//")) THEN absoluteProtocolRelative(s, getBaseURL(cell, h))
    ELSE IF s[1] = 47 THEN absoluteRootRelative(s, getBaseOrigin(cell, h))
    ELSE absoluteRelative(s, getBaseURL(cell, h))

\* resolveAbsolute(raw) for a string raw, with the base cell and
\* location.href h: [s, cell], the result and the cell afterwards
resolveAbsolute(raw, cell, h) == resolveAbsoluteTrimmed(jsTrim(raw), cell, h)

\* decodeUrl
decodeUrl(proxied) ==
    IF proxied = <<>> \/ IndexOf(proxied, B("/proxy?url=")) = 0 THEN proxied
    ELSE IF decodeURIComponent(
                SubSeq(proxied, IndexOf(proxied, B("/proxy?url=")) + 11,
                       Len(proxied))).ok
    THEN decodeURIComponent(
             SubSeq(proxied, IndexOf(proxied, B("/proxy?url=")) + 11,
                    Len(proxied))).s
    ELSE proxied

\* pushState and replaceState up to the call of the native function, for a
\* URL argument that is not empty: abs is what resolveAbsolute returned;
\* [s, cell], the URL handed to the native function and the cell afterwards
stateUrlFrom(url, abs, h) ==
    rewriteUrl(url, IF abs.s # <<>> THEN setBase(abs.s) ELSE abs.cell, h)

\* pushState and replaceState up to the call of the native function
stateUrl(url, cell, h) ==
    IF url = <<>> THEN [s |-> url, cell |-> cell]
    ELSE stateUrlFrom(url, resolveAbsolute(url, cell, h), h)

\* the native pushState and replaceState: location.href afterwards; a URL
\* that does not parse or is of another origin throws and changes nothing
nativeStateFrom(u, h) ==
    IF u.ok /\ urlOrigin(u) = urlOrigin(newURL(h)) THEN urlHref(u) ELSE h

nativeState(url, h) ==
    IF url = <<>> THEN h ELSE nativeStateFrom(newURLWithBase(url, h), h)

\* targetHref, behind the getter of Location.href: the cell afterwards
targetHrefCell(cell, h) == getBaseURL(cell, h)

\* targetHref: what it returns, cell being the cell after its getBaseURL
targetHrefOf(cell, h) ==
    IF cell.BASE_URL # <<>> THEN cell.BASE_URL
    ELSE IF decodeBaseFromLocation(h) # <<>> THEN decodeBaseFromLocation(h)
    ELSE decodeUrl(h)

targetHref(cell, h) == targetHrefOf(targetHrefCell(cell, h), h)

\* Element.prototype.setAttribute("href", value) on a base element: the
\* cell afterwards; BASE_URL is assigned before new URL(value) can throw
baseHrefSet(cell, value) ==
    [BASE_URL |-> value,
     BASE_ORIGIN |-> IF newURL(value).ok THEN urlOrigin(newURL(value))
                     ELSE cell.BASE_ORIGIN]

-----------------------------------------------------------------------------
(* Navigation runs: calls of pushState, replaceState, the href getter and   *)
(* setAttribute on a base element, in a page served by the proxy            *)

\* the calls of a run, at most
MaxNav == 2

NavProxyHref == B("http://localhost:8080/proxy?url=https%3A%2F%2Fexample.com%2Fa%2Fpage")

\* window.__internex_base as the injector set it, or not at all
InjectedBases == { <<>>, B("https://example.com/a/page") }

\* URL arguments of pushState and replaceState; <<>> stands for none
NavURLs ==
    { <<>>, B("/b"), B("next"), B("#sec"), B("https://example.com/c?q=1"),
      B("//cdn.example.com/x"),
      B("/proxy?url=https%3A%2F%2Fexample.com%2Fb") }

\* values written to the href of a base element
BaseHrefValues == { B("https://other.example/dir/"), B("/dir/") }

InitNav ==
    /\ RestNavIdle
    /\ \E b \in InjectedBases : nCell = setBase(b)
    /\ nHref = NavProxyHref
    /\ nLast = [op |-> "idle", url |-> <<>>, ret |-> <<>>,
                prev |-> [BASE_URL |-> <<>>, BASE_ORIGIN |-> <<>>]]
    /\ nCount = 0

navCalled(op, url, ret, cell, h) ==
    /\ nCount < MaxNav
    /\ nCount' = nCount + 1
    /\ nLast' = [op |-> op, url |-> url, ret |-> ret, prev |-> nCell]
    /\ nCell' = cell
    /\ nHref' = h
    /\ UNCHANGED notNav

stateCalled(op, url, r) == navCalled(op, url, r.s, r.cell, nativeState(r.s, nHref))

\* History.prototype.pushState(state, title, url)
PushState(url) == stateCalled("pushState", url, stateUrl(url, nCell, nHref))

\* History.prototype.replaceState(state, title, url)
ReplaceState(url) == stateCalled("replaceState", url, stateUrl(url, nCell, nHref))

\* a read of location.href through the overridden getter
ReadHref ==
    navCalled("href", <<>>, targetHref(nCell, nHref), targetHrefCell(nCell, nHref),
              nHref)

\* setAttribute("href", value) on a base element
SetBaseHref(value) ==
    navCalled("setAttribute", value, <<>>, baseHrefSet(nCell, value), nHref)

NextNav ==
    \/ \E url \in NavURLs : PushState(url)
    \/ \E url \in NavURLs : ReplaceState(url)
    \/ ReadHref
    \/ \E value \in BaseHrefValues : SetBaseHref(value)

SpecNav == InitNav /\ [][NextNav]_vars

\* the target a URL in proxy form carries
proxiedTarget(u) ==
    decodedOrEmpty(decodeURIComponent(
        Cut(SubSeq(u, IndexOf(u, B("/proxy?url=")) + 11, Len(u)), 38)[1]))

\* the absolute upstream URL that u denotes for a page whose base is base
denotedFrom(u, base) ==
    IF isProxied(u) THEN proxiedTarget(u)
    ELSE hrefOr(newURLWithBase(u, base), <<>>)

denoted(u, cell, h) == denotedFrom(u, getBaseURL(cell, h).BASE_URL)

\* C26: after pushState or replaceState with a non-empty URL argument u the
\* base cell holds the absolute upstream URL u denotes (u resolved against
\* the previous base, or the decoded target when u is in proxy form) and
\* the href getter returns it; a call without URL leaves the cell unchanged.
C26_StateSetsBase ==
    nLast.op \in {"pushState", "replaceState"}
        => IF nLast.url = <<>> THEN nCell = nLast.prev
           ELSE /\ nCell.BASE_URL = denoted(nLast.url, nLast.prev, NavProxyHref)
                /\ targetHref(nCell, nHref) = nCell.BASE_URL

\* C28: BASE_ORIGIN is the origin of BASE_URL when BASE_URL parses as an
\* absolute URL and is empty otherwise, after every base update.
C28_OriginOfBase ==
    nCell.BASE_ORIGIN
        = (IF newURL(nCell.BASE_URL).ok THEN urlOrigin(newURL(nCell.BASE_URL))
           ELSE <<>>)

-----------------------------------------------------------------------------
(* The WebSocket bridge (package transport, hijackWebSocket; net/http)      *)

\* the frames the two peers send in a run, at most
MaxFrames == 2

\* hijackWebSocket has hijacked the client connection and is about to write
\* the 101 answer: Response.Write has written the status line and, as the
\* answer has ContentLength 0 and a body (the upstream connection), reads
\* one byte of the body to find out whether there is one
InitBridge ==
    /\ RestBridgeIdle
    /\ gPc = "probe"
    /\ gSent = "status"
    /\ gUp = "none"
    /\ gDown = "none"
    /\ gDone = 0
    /\ gPeers = [client |-> "open", upstream |-> "open"]
    /\ gConns = [client |-> "open", upstream |-> "open"]
    /\ gData = [client |-> 0, upstream |-> 0]
    /\ gTotal = 0

\* a Read on the handler's connection to a peer can return
canRead(peer) ==
    gConns[peer] = "closed" \/ gData[peer] > 0 \/ gPeers[peer] = "closed"

\* the Read returns data
readsData(peer) == gConns[peer] = "open" /\ gData[peer] > 0

\* a Write on the handler's connection to a peer succeeds
canWrite(peer) == gConns[peer] = "open" /\ gPeers[peer] = "open"

\* a peer sends a frame
PeerSends(peer) ==
    /\ gPeers[peer] = "open" /\ gConns[peer] = "open" /\ gTotal < MaxFrames
    /\ gData' = [gData EXCEPT ![peer] = @ + 1]
    /\ gTotal' = gTotal + 1
    /\ UNCHANGED <<gPc, gSent, gUp, gDown, gDone, gPeers, gConns, notBridge>>

\* a peer closes its side
PeerCloses(peer) ==
    /\ gPeers[peer] = "open" /\ gPc # "returned"
    /\ gPeers' = [gPeers EXCEPT ![peer] = "closed"]
    /\ UNCHANGED <<gPc, gSent, gUp, gDown, gDone, gConns, gData, gTotal, notBridge>>

\* Response.Write: the one-byte read of the body returns. With a byte the
\* header is written and the body is copied to the client; at the end of
\* the upstream stream the header is written and Write returns
WriteProbe ==
    /\ gPc = "probe" /\ canRead("upstream")
    /\ gSent' = "header"
    /\ gPc' = IF readsData("upstream") THEN "relay" ELSE "start"
    /\ UNCHANGED <<gUp, gDown, gDone, gPeers, gConns, gData, gTotal, notBridge>>

\* Response.Write, the copy of the body to the client socket: a frame is
\* read and written; when the write fails or the stream ends, the body is
\* closed and Write returns
WriteRelay ==
    /\ gPc = "relay" /\ canRead("upstream")
    /\ IF readsData("upstream") /\ canWrite("client")
       THEN /\ gData' = [gData EXCEPT !["upstream"] = @ - 1]
            /\ UNCHANGED <<gPc, gConns>>
       ELSE /\ gPc' = "start"
            /\ gConns' = [gConns EXCEPT !["upstream"] = "closed"]
            /\ UNCHANGED gData
    /\ UNCHANGED <<gSent, gUp, gDown, gDone, gPeers, gTotal, notBridge>>

\* hijackWebSocket after Write: the body is a ReadWriteCloser, the two copy
\* goroutines are started and the handler waits for done
StartCopies ==
    /\ gPc = "start"
    /\ gPc' = "wait"
    /\ gUp' = "read"
    /\ gDown' = "read"
    /\ UNCHANGED <<gSent, gDone, gPeers, gConns, gData, gTotal, notBridge>>

\* copy(upConn, clientConn), one round of io.Copy: the Read returns and what
\* it read is written; a failed Read or Write ends the copy
UpCopies ==
    /\ gUp = "read" /\ canRead("client")
    /\ IF readsData("client")
       THEN /\ gData' = [gData EXCEPT !["client"] = @ - 1]
            /\ gUp' = IF canWrite("upstream") THEN "read" ELSE "send"
       ELSE /\ gUp' = "send"
            /\ UNCHANGED gData
    /\ UNCHANGED <<gPc, gSent, gDown, gDone, gPeers, gConns, gTotal, notBridge>>

\* copy(upConn, clientConn): done <- struct{}{}; the channel holds two
UpSends ==
    /\ gUp = "send" /\ gDone < 2
    /\ gDone' = gDone + 1
    /\ gUp' = "ended"
    /\ UNCHANGED <<gPc, gSent, gDown, gPeers, gConns, gData, gTotal, notBridge>>

\* copy(clientConn, upConn), one round of io.Copy
DownCopies ==
    /\ gDown = "read" /\ canRead("upstream")
    /\ IF readsData("upstream")
       THEN /\ gData' = [gData EXCEPT !["upstream"] = @ - 1]
            /\ gDown' = IF canWrite("client") THEN "read" ELSE "send"
       ELSE /\ gDown' = "send"
            /\ UNCHANGED gData
    /\ UNCHANGED <<gPc, gSent, gUp, gDone, gPeers, gConns, gTotal, notBridge>>

\* copy(clientConn, upConn): done <- struct{}{}
DownSends ==
    /\ gDown = "send" /\ gDone < 2
    /\ gDone' = gDone + 1
    /\ gDown' = "ended"
    /\ UNCHANGED <<gPc, gSent, gUp, gPeers, gConns, gData, gTotal, notBridge>>

\* hijackWebSocket: <-done, then the deferred upConn.Close() and
\* clientConn.Close()
BridgeReturns ==
    /\ gPc = "wait" /\ gDone > 0
    /\ gDone' = gDone - 1
    /\ gPc' = "returned"
    /\ gConns' = [client |-> "closed", upstream |-> "closed"]
    /\ UNCHANGED <<gSent, gUp, gDown, gPeers, gData, gTotal, notBridge>>

\* the steps of the handler and of its two goroutines
BridgeSteps ==
    \/ WriteProbe
    \/ WriteRelay
    \/ StartCopies
    \/ UpCopies
    \/ UpSends
    \/ DownCopies
    \/ DownSends
    \/ BridgeReturns

NextBridge ==
    \/ \E peer \in {"client", "upstream"} : PeerSends(peer)
    \/ \E peer \in {"client", "upstream"} : PeerCloses(peer)
    \/ BridgeSteps

\* The scheduler runs the handler and each goroutine whenever the call it
\* is in can return; nothing obliges a peer to send or to close.
SpecBridge ==
    /\ InitBridge /\ [][NextBridge]_vars
    /\ WF_vars(WriteProbe \/ WriteRelay \/ StartCopies \/ BridgeReturns)
    /\ WF_vars(UpCopies \/ UpSends)
    /\ WF_vars(DownCopies \/ DownSends)

\* both sockets are closed and no copy goroutine is left in a call
TornDown ==
    /\ gConns = [client |-> "closed", upstream |-> "closed"]
    /\ gUp = "ended" /\ gDown = "ended"

\* C24: in bridge mode, once either peer has closed its side the handler
\* closes the client socket and the upstream connection, and both copy
\* goroutines come to an end.
C24_BridgeTornDown ==
    (gPeers["client"] = "closed" \/ gPeers["upstream"] = "closed") ~> TornDown

-----------------------------------------------------------------------------
(* The session store, one operation after the other (package session)       *)

\* the operations of a run, at most
MaxOps == 3

\* SessionStore.SetLocalStorage / SetSessionStorage: the origins map
\* afterwards; bucket is the field written
setStorage(omap, origin, bucket, key, value) ==
    LET created == getOrCreate(omap, origin)
        m == created[origin][bucket]
    IN [created EXCEPT ![origin][bucket] =
            [k \in DOMAIN m \cup {key} |-> IF k = key THEN value ELSE m[k]]]

\* SessionStore.DeleteLocalStorage / DeleteSessionStorage
deleteStorage(omap, origin, bucket, key) ==
    IF origin \notin DOMAIN omap THEN omap
    ELSE LET m == omap[origin][bucket]
         IN [omap EXCEPT ![origin][bucket] = [k \in DOMAIN m \ {key} |-> m[k]]]

\* variant of clearStorage: the session's other bucket is wiped as well
clearStorage_Both(omap, origin, bucket) ==
    IF origin \notin DOMAIN omap THEN omap
    ELSE [omap EXCEPT ![origin].LocalStorage = [k \in {} |-> <<>>],
                         ![origin].SessionStorage = [k \in {} |-> <<>>]]

\* SessionStore.ClearLocalStorage / ClearSessionStorage
clearStorage(omap, origin, bucket) ==
    IF origin \notin DOMAIN omap THEN omap
    ELSE [omap EXCEPT ![origin][bucket] = [k \in {} |-> <<>>]]

JarOrigins == {B("https://a.example"), B("http://a.example")}

Buckets == {"LocalStorage", "SessionStorage"}

JarKeys == {B("k"), B("m")}

\* the Set-Cookie lines of the upstream answers: paths that differ in case
\* only, no path, another name, two cookies of one identity in one answer
JarSetCookies ==
    { <<B("sid=1; Path=/A")>>,
      <<B("sid=2; Path=/a")>>,
      <<B("sid=3")>>,
      <<B("tok=1; Path=/a"), B("sid=4; path=/A")>>,
      <<B("sid=5; Path=/b"), B("sid=6; Path=/B")>> }

InitJar ==
    /\ RestJarIdle
    /\ jOrigins = EmptyOrigins
    /\ jPrev = EmptyOrigins
    /\ jOp = [name |-> "none"]
    /\ jCount = 0

\* an operation ran: op describes it, after is the origins map it leaves
jarDid(op, after) ==
    /\ jCount < MaxOps
    /\ jCount' = jCount + 1
    /\ jPrev' = jOrigins
    /\ jOp' = op
    /\ jOrigins' = after
    /\ UNCHANGED notJar

Absorb(origin, lines) ==
    jarDid([name |-> "SetCookiesFromResponse", origin |-> origin,
            cookies |-> Cookies([h \in {B("Set-Cookie")} |-> lines])],
           SetCookiesFromResponse(jOrigins, origin, [h \in {B("Set-Cookie")} |-> lines]))

JarDeleteCookie(origin, cookieName) ==
    jarDid([name |-> "DeleteCookie", origin |-> origin],
           DeleteCookie(jOrigins, origin, cookieName))

JarSetStorage(origin, bucket, key) ==
    jarDid([name |-> "Set", origin |-> origin, bucket |-> bucket],
           setStorage(jOrigins, origin, bucket, key, B("v")))

JarDeleteStorage(origin, bucket, key) ==
    jarDid([name |-> "Delete", origin |-> origin, bucket |-> bucket],
           deleteStorage(jOrigins, origin, bucket, key))

JarClearStorage(origin, bucket) ==
    jarDid([name |-> "Clear", origin |-> origin, bucket |-> bucket],
           clearStorage(jOrigins, origin, bucket))

JarClearAll == jarDid([name |-> "ClearAll"], ClearAll(jOrigins))

NextJar ==
    \/ \E origin \in JarOrigins, lines \in JarSetCookies : Absorb(origin, lines)
    \/ \E origin \in JarOrigins, n \in {B("sid"), B("tok")} : JarDeleteCookie(origin, n)
    \/ \E origin \in JarOrigins, bucket \in Buckets, key \in JarKeys :
          JarSetStorage(origin, bucket, key)
    \/ \E origin \in JarOrigins, bucket \in Buckets, key \in JarKeys :
          JarDeleteStorage(origin, bucket, key)
    \/ \E origin \in JarOrigins, bucket \in Buckets : JarClearStorage(origin, bucket)
    \/ JarClearAll

SpecJar == InitJar /\ [][NextJar]_vars

\* what the accessors show of an origin: an origin without session reads as
\* an empty one
sessionOf(omap, origin) ==
    IF origin \in DOMAIN omap THEN omap[origin] ELSE NewOriginSession

\* two cookies of one identity: same name, paths equal without regard to case
sameIdentity(c, d) == c.Name = d.Name /\ EqualFold(c.Path, d.Path)

\* the jar of the last absorb call after the first k cookies of the answer
jarAfter(k) ==
    upsertCookies(sessionOf(jPrev, jOp.origin).Cookies, SubSeq(jOp.cookies, 1, k), 1)

\* the k-th cookie replaced the stored one of its identity in place, or was
\* appended when there was none
upsertedAt(k) ==
    LET before == jarAfter(k - 1)
        after == jarAfter(k)
        c == jOp.cookies[k]
        hits == {i \in 1..Len(before) : sameIdentity(before[i], c)}
    IN IF hits # {}
       THEN /\ Len(after) = Len(before)
            /\ \E i \in hits : after = [before EXCEPT ![i] = c]
       ELSE after = Append(before, c)

\* C22: no jar holds two cookies of one identity, and every cookie absorbed
\* replaces the stored cookie of its identity at its position, the length of
\* the list unchanged, or is appended at the end when there is none.
C22_UpsertByIdentity ==
    /\ \A o \in DOMAIN jOrigins :
          \A i, j \in 1..Len(jOrigins[o].Cookies) :
             i # j => ~sameIdentity(jOrigins[o].Cookies[i], jOrigins[o].Cookies[j])
    /\ jOp.name = "SetCookiesFromResponse"
          => /\ sessionOf(jOrigins, jOp.origin).Cookies = jarAfter(Len(jOp.cookies))
             /\ \A k \in 1..Len(jOp.cookies) : upsertedAt(k)

\* an absorbed cookie replaced a stored one whose path differs in case, in a
\* jar that holds another cookie as well
C22_Witness ==
    /\ jOp.name = "SetCookiesFromResponse"
    /\ jOp.origin \in DOMAIN jPrev
    /\ Len(jOrigins[jOp.origin].Cookies) = 2
    /\ Len(jPrev[jOp.origin].Cookies) = 2
    /\ \E i \in 1..2 :
          /\ jPrev[jOp.origin].Cookies[i].Path # jOrigins[jOp.origin].Cookies[i].Path
          /\ sameIdentity(jPrev[jOp.origin].Cookies[i], jOrigins[jOp.origin].Cookies[i])

\* the origins an operation changed
changedOrigins ==
    {o \in DOMAIN jPrev \cup DOMAIN jOrigins :
        \/ o \notin DOMAIN jPrev
        \/ o \notin DOMAIN jOrigins
        \/ jPrev[o] # jOrigins[o]}

\* the fields of a session an operation may write
fieldsOf(op) ==
    IF op.name \in {"SetCookiesFromResponse", "DeleteCookie"} THEN {"Cookies"}
    ELSE {op.bucket}

\* C23: an operation addressed to one origin leaves every other origin as it
\* was, and leaves the fields of its own origin it is not about as they
\* were; only ClearAll changes more than one origin.
C23_OriginsIndependent ==
    jOp.name \notin {"none", "ClearAll"}
        => /\ changedOrigins \subseteq {jOp.origin}
           /\ \A f \in {"Cookies", "LocalStorage", "SessionStorage"} \ fieldsOf(jOp) :
                 sessionOf(jOrigins, jOp.origin)[f] = sessionOf(jPrev, jOp.origin)[f]

\* a key was set in one bucket of an origin whose other bucket held a key,
\* while another origin had a session that was not empty
C23_Witness ==
    /\ jOp.name = "Set"
    /\ changedOrigins = {jOp.origin}
    /\ \E f \in Buckets \ {jOp.bucket} : DOMAIN jOrigins[jOp.origin][f] # {}
    /\ \E o \in DOMAIN jOrigins \ {jOp.origin} : jOrigins[o] # NewOriginSession

-----------------------------------------------------------------------------
(* The session store under concurrency, with the session objects and       *)
(* ClearAll (package session): first writes for one origin                 *)

\* the calls of ClearAll in a run, at most
MaxClears == 1

\* the operation each goroutine runs, all on the same origin
HeapOps ==
    <<"SetCookiesFromResponse", "SetLocalStorage", "SetSessionStorage",
      "GetCookies", "ClearAll">>

Goroutines == DOMAIN HeapOps

FirstWriters == {p \in Goroutines : HeapOps[p] \notin {"GetCookies", "ClearAll"}}

\* the cookie the absorbed response sets
HeapCookie == Cookies(ReadHeader(<<<<B("set-cookie"), B("sid=1")>>>>))

FreeMutex == [w |-> 0, writer |-> 0, readers |-> {}]

\* sync.RWMutex.Lock, first half: the caller takes the writers' mutex rw.w
\* and from then on is pending, which holds back new readers
canPend(mu) == mu.w = 0

\* sync.RWMutex.RLock can return: no writer is pending or holds the mutex
canRLockFair(mu) == mu.w = 0

InitHeap ==
    /\ RestHeapIdle
    /\ yHeap = <<>>
    /\ ySessMu = <<>>
    /\ yMap = 0
    /\ yStoreMu = FreeMutex
    /\ yProc = [p \in Goroutines |->
                  [pc |-> "start", sess |-> 0, held |-> {}, missed |-> FALSE]]
    /\ yCleared = 0

\* the first lookup of every operation but ClearAll: s.mu.RLock()
StoreRLock(p) ==
    /\ yProc[p].pc = "start" /\ HeapOps[p] # "ClearAll"
    /\ canRLockFair(yStoreMu)
    /\ yStoreMu' = [yStoreMu EXCEPT !.readers = @ \cup {p}]
    /\ yProc' = [yProc EXCEPT ![p].pc = "lookup", ![p].held = @ \cup {"store"}]
    /\ UNCHANGED <<yHeap, ySessMu, yMap, yCleared, notHeap>>

\* sess, ok := s.origins[origin]; s.mu.RUnlock(): a session found is used,
\* without one getOrCreate goes on to the write lock and GetCookies returns
StoreLookup(p) ==
    /\ yProc[p].pc = "lookup"
    /\ yStoreMu' = [yStoreMu EXCEPT !.readers = @ \ {p}]
    /\ yProc' = [yProc EXCEPT
                   ![p].held = @ \ {"store"},
                   ![p].sess = yMap,
                   ![p].missed = (yMap = 0),
                   ![p].pc = IF yMap # 0 THEN "sessLock"
                             ELSE IF p \in FirstWriters THEN "storeLock" ELSE "done"]
    /\ UNCHANGED <<yHeap, ySessMu, yMap, yCleared, notHeap>>

\* s.mu.Lock() is called, in getOrCreate and in ClearAll: the caller pends
StorePend(p) ==
    /\ \/ yProc[p].pc = "storeLock"
       \/ yProc[p].pc = "start" /\ HeapOps[p] = "ClearAll"
    /\ canPend(yStoreMu)
    /\ yStoreMu' = [yStoreMu EXCEPT !.w = p]
    /\ yProc' = [yProc EXCEPT ![p].pc = "storePending"]
    /\ UNCHANGED <<yHeap, ySessMu, yMap, yCleared, notHeap>>

\* s.mu.Lock() returns
StoreLock(p) ==
    /\ yProc[p].pc = "storePending" /\ canLock(yStoreMu)
    /\ yStoreMu' = [yStoreMu EXCEPT !.writer = p]
    /\ yProc' = [yProc EXCEPT ![p].held = @ \cup {"store"},
                              ![p].pc = IF HeapOps[p] = "ClearAll" THEN "clear"
                                        ELSE "create"]
    /\ UNCHANGED <<yHeap, ySessMu, yMap, yCleared, notHeap>>

\* variant of insertSession: no second lookup, a new session is inserted
\* whatever the map holds
insertSession_Blind(p) ==
    /\ yHeap' = Append(yHeap, NewOriginSession)
    /\ ySessMu' = Append(ySessMu, FreeMutex)
    /\ yMap' = Len(yHeap) + 1
    /\ yProc' = [yProc EXCEPT ![p].held = @ \ {"store"}, ![p].pc = "sessLock",
                              ![p].sess = Len(yHeap) + 1]

\* getOrCreate under the write lock: the second lookup, the insert of a new
\* OriginSession when there is still none, and the deferred s.mu.Unlock()
insertSession(p) ==
    IF yMap # 0
    THEN /\ yProc' = [yProc EXCEPT ![p].held = @ \ {"store"}, ![p].pc = "sessLock",
                                   ![p].sess = yMap]
         /\ UNCHANGED <<yHeap, ySessMu, yMap>>
    ELSE /\ yHeap' = Append(yHeap, NewOriginSession)
         /\ ySessMu' = Append(ySessMu, FreeMutex)
         /\ yMap' = Len(yHeap) + 1
         /\ yProc' = [yProc EXCEPT ![p].held = @ \ {"store"}, ![p].pc = "sessLock",
                                   ![p].sess = Len(yHeap) + 1]

StoreCreate(p) ==
    /\ yProc[p].pc = "create"
    /\ insertSession(p)
    /\ yStoreMu' = FreeMutex
    /\ UNCHANGED <<yCleared, notHeap>>

\* variant of clearOrigins: the deferred Unlock is left out
clearOrigins_KeepLock(p) ==
    /\ yMap' = 0
    /\ yCleared' = yCleared + 1
    /\ yProc' = [yProc EXCEPT ![p].pc = IF yCleared + 1 < MaxClears THEN "start" ELSE "done"]
    /\ UNCHANGED yStoreMu

\* ClearAll under the write lock: s.origins is replaced by an empty map,
\* then the deferred s.mu.Unlock(); the goroutine calls ClearAll again
\* while it may
clearOrigins(p) ==
    /\ yMap' = 0
    /\ yCleared' = yCleared + 1
    /\ yProc' = [yProc EXCEPT ![p].held = @ \ {"store"},
                              ![p].pc = IF yCleared + 1 < MaxClears THEN "start" ELSE "done"]
    /\ yStoreMu' = FreeMutex

StoreClear(p) ==
    /\ yProc[p].pc = "clear"
    /\ clearOrigins(p)
    /\ UNCHANGED <<yHeap, ySessMu, notHeap>>

\* sess.mu.Lock() is called by a writing operation: the caller pends
SessPend(p) ==
    /\ yProc[p].pc = "sessLock" /\ p \in FirstWriters
    /\ canPend(ySessMu[yProc[p].sess])
    /\ ySessMu' = [ySessMu EXCEPT ![yProc[p].sess].w = p]
    /\ yProc' = [yProc EXCEPT ![p].pc = "sessPending"]
    /\ UNCHANGED <<yHeap, yMap, yStoreMu, yCleared, notHeap>>

\* sess.mu.Lock() returns
SessLock(p) ==
    /\ yProc[p].pc = "sessPending" /\ canLock(ySessMu[yProc[p].sess])
    /\ ySessMu' = [ySessMu EXCEPT ![yProc[p].sess].writer = p]
    /\ yProc' = [yProc EXCEPT ![p].held = @ \cup {"sess"}, ![p].pc = "write"]
    /\ UNCHANGED <<yHeap, yMap, yStoreMu, yCleared, notHeap>>

\* the write of each operation to the session it holds
written(op, sess) ==
    IF op = "SetCookiesFromResponse"
    THEN [sess EXCEPT !.Cookies = upsertCookies(@, HeapCookie, 1)]
    ELSE IF op = "SetLocalStorage"
    THEN [sess EXCEPT !.LocalStorage = [k \in DOMAIN @ \cup {B("k")} |-> B("v")]]
    ELSE [sess EXCEPT !.SessionStorage = [k \in DOMAIN @ \cup {B("k")} |-> B("v")]]

\* the body of the writing operation and the deferred sess.mu.Unlock()
SessWrite(p) ==
    /\ yProc[p].pc = "write"
    /\ yHeap' = [yHeap EXCEPT ![yProc[p].sess] = written(HeapOps[p], @)]
    /\ ySessMu' = [ySessMu EXCEPT ![yProc[p].sess] = FreeMutex]
    /\ yProc' = [yProc EXCEPT ![p].held = @ \ {"sess"}, ![p].pc = "done"]
    /\ UNCHANGED <<yMap, yStoreMu, yCleared, notHeap>>

\* GetCookies: sess.mu.RLock()
SessRLock(p) ==
    /\ yProc[p].pc = "sessLock" /\ p \notin FirstWriters
    /\ canRLockFair(ySessMu[yProc[p].sess])
    /\ ySessMu' = [ySessMu EXCEPT ![yProc[p].sess].readers = @ \cup {p}]
    /\ yProc' = [yProc EXCEPT ![p].held = @ \cup {"sess"}, ![p].pc = "read"]
    /\ UNCHANGED <<yHeap, yMap, yStoreMu, yCleared, notHeap>>

\* GetCookies: the copy of sess.Cookies and the deferred sess.mu.RUnlock()
SessRead(p) ==
    /\ yProc[p].pc = "read"
    /\ ySessMu' = [ySessMu EXCEPT ![yProc[p].sess].readers = @ \ {p}]
    /\ yProc' = [yProc EXCEPT ![p].held = @ \ {"sess"}, ![p].pc = "done"]
    /\ UNCHANGED <<yHeap, yMap, yStoreMu, yCleared, notHeap>>

NextHeap ==
    \E p \in Goroutines :
        \/ StoreRLock(p)
        \/ StoreLookup(p)
        \/ StorePend(p)
        \/ StoreLock(p)
        \/ StoreCreate(p)
        \/ StoreClear(p)
        \/ SessPend(p)
        \/ SessLock(p)
        \/ SessWrite(p)
        \/ SessRLock(p)
        \/ SessRead(p)

SpecHeap == InitHeap /\ [][NextHeap]_vars

\* every first write has returned and ClearAll has not emptied the store
firstWritesDone ==
    /\ yCleared = 0
    /\ \A p \in FirstWriters : yProc[p].pc = "done"

\* C21: when the concurrent first writes for an unknown origin have
\* returned, one OriginSession was inserted for the origin, each writer
\* wrote to the session the map holds, and the session shows every write.
C21_OneSessionAllWrites ==
    firstWritesDone
        => /\ Len(yHeap) = 1
           /\ yMap = 1
           /\ \A p \in FirstWriters : yProc[p].sess = yMap
           /\ yHeap[yMap].Cookies = HeapCookie
           /\ DOMAIN yHeap[yMap].LocalStorage = {B("k")}
           /\ DOMAIN yHeap[yMap].SessionStorage = {B("k")}

\* all three writers found no session at their first lookup and went on to
\* the write lock of the store
C21_Witness ==
    /\ firstWritesDone
    /\ \A p \in FirstWriters : yProc[p].missed

\* every operation of the run has returned
allReturned == \A p \in Goroutines : yProc[p].pc = "done"

\* C29: no operation holds the store's lock and a session's lock together
\* or asks for a session's lock with the store's lock held, an operation
\* that returned holds no lock, and the run never stops with an operation
\* left waiting.
C29_NoDeadlock ==
    /\ \A p \in Goroutines :
          /\ ~({"store", "sess"} \subseteq yProc[p].held)
          /\ yProc[p].pc \in {"sessLock", "sessPending"} => yProc[p].held = {}
          /\ yProc[p].pc \in {"start", "done"} => yProc[p].held = {}
    /\ \A p \in Goroutines :
          /\ yStoreMu.writer = p => "store" \in yProc[p].held
          /\ \A i \in 1..Len(ySessMu) : ySessMu[i].writer = p => "sess" \in yProc[p].held
    /\ ~(ENABLED NextHeap) => allReturned

\* one goroutine waits in s.mu.Lock() and another in sess.mu.Lock(), each
\* for a lock that is held
C29_Witness ==
    \E p, q \in Goroutines :
        /\ yProc[p].pc = "storePending" /\ ~canLock(yStoreMu)
        /\ yProc[q].pc = "sessPending" /\ ~canLock(ySessMu[yProc[q].sess])

=============================================================================
